---- MODULE Spec2Model ----
(***************************************************************************)
(* The settlement and reconciliation engine of TripApp: expenses and their *)
(* Splits, Prepayments, the FIFO reconciliation procedures, the manual     *)
(* settlement operations and the Settlement Aggregator.                    *)
(*                                                                         *)
(* Money is counted in cents (the Decimal fields have two places), so      *)
(* quantize(Decimal("0.01")) is a rounding of a rational number of cents   *)
(* to an integer, half to even (Python's default context).  One trip is    *)
(* modelled; its reference currency never changes.                         *)
(***************************************************************************)
EXTENDS Integers, Sequences, FiniteSets, TLC

\* ---------------------------------------------------------------- bounds
NumParticipants == 2
MaxAmount == 2
MaxRate == 2
MaxTime == 2
MaxExpenses == 2
MaxShares == 2
MaxPrepayments == 2
MaxItems == 2
MaxOps == 3
MaxInputOps == 2
MaxCalls == 2
MaxSetupOps == 1

\* ------------------------------------------------------------- constants
ZERO == 0
RateOne == 1

TripCurrency == "USD"
ForeignCurrency == "EUR"
Currencies == {TripCurrency, ForeignCurrency}

Participants == 1..NumParticipants
\* An id no Participant row of the trip carries; also stands for a logged-in
\* user who has no Participant in the trip.
NoSuchParticipant == NumParticipants + 1
ParticipantIds == Participants \cup {NoSuchParticipant}

\* ------------------------------------------------------------ arithmetic
\* Decimal.quantize(Decimal("0.01")) of num/den cents, ROUND_HALF_EVEN.
Quantize(num, den) ==
    LET q == num \div den
        r == num % den
    IN  IF 2 * r < den THEN q
        ELSE IF 2 * r > den THEN q + 1
        ELSE IF q % 2 = 0 THEN q ELSE q + 1

\* (amount * rate).quantize(Decimal("0.01"))
TimesRate(amount, rate) == Quantize(amount * rate, RateOne)
\* (amount / rate).quantize(Decimal("0.01"))
DivRate(amount, rate) == Quantize(amount * RateOne, rate)

Max(a, b) == IF a >= b THEN a ELSE b
Min(a, b) == IF a <= b THEN a ELSE b

\* min(v for v in values if v > ZERO)
_min_positive(values) ==
    LET pos == {v \in values : v > ZERO}
    IN  CHOOSE m \in pos : \A v \in pos : m <= v

\* The exchange-rate provider.  The same currency converts at 1.000000; for
\* two different currencies the provider is external to the engine (the
\* function in the source is its placeholder and answers 1.000000), so the
\* answer is any rate of 1.000000 .. MaxRate.000000.
get_exchange_rate(from_currency, to_currency) ==
    IF from_currency = to_currency THEN {RateOne} ELSE RateOne..MaxRate

RECURSIVE SumOver(_, _)
\* The sum of f[i] over the finite set S of indices.
SumOver(S, f) ==
    IF S = {} THEN 0
    ELSE LET i == CHOOSE x \in S : TRUE IN f[i] + SumOver(S \ {i}, f)

\* ---------------------------------------------------------------- state
VARIABLES
    expenses,         \* Expense rows, in primary-key order
    splits,           \* Split rows, in primary-key order
    prepayments,      \* Prepayment rows, in created_date order
    settlementTrip,   \* SettlementTripCurrency rows
    settlementOther,  \* SettlementOtherCurrency rows
    nextExpenseId,    \* the next Expense primary key
    last,             \* the last operation called and how it ended
    nops,             \* the number of operations called so far
    calls,            \* the requests that run side by side, with their locals
    base,             \* the database when the first of them began
    reader,           \* a trip_settlements query and what it has read
    trips,            \* Trip rows, in primary-key order
    participants,     \* Participant rows
    nextParticipantId,  \* the next Participant primary key
    elsewhere,        \* the rows of the same tables that belong to another trip
    builder           \* a call of the Split Builder: its arguments and its result

vars == <<expenses, splits, prepayments, settlementTrip, settlementOther,
          nextExpenseId, last, nops, calls, base, reader,
          trips, participants, nextParticipantId, elsewhere, builder>>

\* What the engine operations of the trip, and the requests beside them,
\* neither read nor write.
OutsideUnchanged ==
    UNCHANGED <<trips, participants, nextParticipantId, elsewhere, builder>>

\* The database as one value, for the operators that compute a handler.
DB == [expenses |-> expenses, splits |-> splits, prepayments |-> prepayments,
       settlementTrip |-> settlementTrip, settlementOther |-> settlementOther,
       nextExpenseId |-> nextExpenseId]

ExpenseIds(db) == {db.expenses[i].expense_id : i \in DOMAIN db.expenses}
ExpenseById(db, id) ==
    db.expenses[CHOOSE i \in DOMAIN db.expenses : db.expenses[i].expense_id = id]

RECURSIVE SelectSeqBy(_, _, _)
\* The subsequence of s whose index satisfies Keep (a filter on rows that
\* needs the row's position).
SelectSeqBy(s, i, keep) ==
    IF i > Len(s) THEN <<>>
    ELSE (IF i \in keep THEN <<s[i]>> ELSE <<>>) \o SelectSeqBy(s, i + 1, keep)

\* split.is_settlement = left_trip <= 0 and left_cost <= 0
_update_is_settlement(split) ==
    [split EXCEPT !.is_settlement =
        (split.left_trip <= ZERO /\ split.left_cost <= ZERO)]

\* ------------------------------------------------- reconciliation engine
\* SettleInTripCurrency with a fault: the Split's whole remainder is taken
\* from the Prepayment, whatever the Prepayment has left.
SettleInTripCurrencyWholeSplit(split, prepayment, rate) ==
    LET settleable_trip == split.left_trip
        settleable_cost == IF rate # ZERO THEN DivRate(settleable_trip, rate)
                           ELSE settleable_trip
    IN  [prepayment |-> [prepayment EXCEPT !.amount_left = @ - settleable_trip],
         split |-> [split EXCEPT
                      !.left_trip = @ - settleable_trip,
                      !.left_cost = Max(ZERO, @ - settleable_cost)]]

\* One pass of the loop body of apply_prepayments_to_split and of
\* apply_prepayment_to_splits for a trip-currency prepayment: the pair
\* (split, prepayment) after the prepayment has paid into the split.
SettleInTripCurrencyOneCent(split, prepayment, rate) ==
    LET settleable_trip == 1
        settleable_cost == IF rate # ZERO THEN DivRate(settleable_trip, rate)
                           ELSE settleable_trip
    IN  [prepayment |-> [prepayment EXCEPT !.amount_left = @ - settleable_trip],
         split |-> [split EXCEPT
                      !.left_trip = @ - settleable_trip,
                      !.left_cost = Max(ZERO, @ - settleable_cost)]]

SettleInTripCurrency(split, prepayment, rate) ==
    LET settleable_trip == _min_positive({prepayment.amount_left, split.left_trip})
        settleable_cost == IF rate # ZERO THEN DivRate(settleable_trip, rate)
                           ELSE settleable_trip
    IN  [prepayment |-> [prepayment EXCEPT !.amount_left = @ - settleable_trip],
         split |-> [split EXCEPT
                      !.left_trip = @ - settleable_trip,
                      !.left_cost = Max(ZERO, @ - settleable_cost)]]

\* SettleInCostCurrency with a fault: the prepayment is charged the
\* amount converted to trip currency.
SettleInCostCurrencyConverted(split, prepayment, rate) ==
    LET settleable_cost == _min_positive({prepayment.amount_left, split.left_cost})
        settleable_trip == TimesRate(settleable_cost, rate)
    IN  [prepayment |-> [prepayment EXCEPT !.amount_left = @ - settleable_trip],
         split |-> [split EXCEPT
                      !.left_cost = @ - settleable_cost,
                      !.left_trip = Max(ZERO, @ - settleable_trip)]]

\* The same for a prepayment in the expense's own (non-trip) currency.
SettleInCostCurrency(split, prepayment, rate) ==
    LET settleable_cost == _min_positive({prepayment.amount_left, split.left_cost})
        settleable_trip == TimesRate(settleable_cost, rate)
    IN  [prepayment |-> [prepayment EXCEPT !.amount_left = @ - settleable_cost],
         split |-> [split EXCEPT
                      !.left_cost = @ - settleable_cost,
                      !.left_trip = Max(ZERO, @ - settleable_trip)]]

RECURSIVE ApplyPrepaymentsLoop(_, _, _, _)
\* for prepayment in prepayments: ... of apply_prepayments_to_split; cands
\* are the positions of the queried prepayments, oldest first.
ApplyPrepaymentsLoop(split, preps, cands, expense) ==
    IF cands = <<>> \/ split.left_trip <= ZERO
    THEN [split |-> split, prepayments |-> preps]
    ELSE LET i == Head(cands)
             p == preps[i]
         IN  IF p.currency = TripCurrency
             THEN LET r == SettleInTripCurrency(split, p, expense.rate)
                  IN  ApplyPrepaymentsLoop(r.split, [preps EXCEPT ![i] = r.prepayment],
                                           Tail(cands), expense)
             ELSE IF p.currency = expense.expense_currency
                     /\ expense.expense_currency # TripCurrency
             THEN LET r == SettleInCostCurrency(split, p, expense.rate)
                  IN  ApplyPrepaymentsLoop(r.split, [preps EXCEPT ![i] = r.prepayment],
                                           Tail(cands), expense)
             ELSE ApplyPrepaymentsLoop(split, preps, Tail(cands), expense)

RECURSIVE Reversed(_)
Reversed(s) == IF s = <<>> THEN <<>> ELSE Append(Reversed(Tail(s)), Head(s))

\* PrepaymentCandidates with a fault: the newest Prepayment comes first
\* (order_by("-created_date")).
PrepaymentCandidatesNewestFirst(db, split) ==
    LET keep == {i \in DOMAIN db.prepayments :
                    /\ db.prepayments[i].from_participant = split.participant
                    /\ db.prepayments[i].to_participant
                         = ExpenseById(db, split.expense).payer
                    /\ db.prepayments[i].amount_left > ZERO}
    IN  Reversed(SelectSeqBy([i \in DOMAIN db.prepayments |-> i], 1, keep))

\* The positions of the Prepayments a split may draw on, by created_date.
PrepaymentCandidates(db, split) ==
    LET expense == ExpenseById(db, split.expense)
        keep == {i \in DOMAIN db.prepayments :
                    /\ db.prepayments[i].from_participant = split.participant
                    /\ db.prepayments[i].to_participant = expense.payer
                    /\ db.prepayments[i].amount_left > ZERO}
    IN  SelectSeqBy([i \in DOMAIN db.prepayments |-> i], 1, keep)

\* apply_prepayments_to_split(split, trip), for the Split at position k.
apply_prepayments_to_split(db, k) ==
    LET split == db.splits[k]
    IN  IF split.left_trip <= ZERO THEN db
        ELSE LET r == ApplyPrepaymentsLoop(split, db.prepayments,
                                           PrepaymentCandidates(db, split),
                                           ExpenseById(db, split.expense))
             IN  [db EXCEPT !.prepayments = r.prepayments,
                            !.splits[k] = _update_is_settlement(r.split)]

RECURSIVE ApplyPrepaymentLoop(_, _, _, _)
\* for split in splits: ... of apply_prepayment_to_splits; order holds the
\* positions of the queried Splits, as the query returned them.
ApplyPrepaymentLoop(db, prepayment, order, spl) ==
    IF order = <<>> \/ prepayment.amount_left <= ZERO
    THEN [prepayment |-> prepayment, splits |-> spl]
    ELSE LET k == Head(order)
             expense == ExpenseById(db, spl[k].expense)
             r == IF prepayment.currency = TripCurrency
                  THEN SettleInTripCurrency(spl[k], prepayment, expense.rate)
                  ELSE SettleInCostCurrency(spl[k], prepayment, expense.rate)
         IN  ApplyPrepaymentLoop(db, r.prepayment, Tail(order),
                                 [spl EXCEPT ![k] = _update_is_settlement(r.split)])

\* SplitCandidates with a fault: the filter on the expense's currency is
\* missing.
SplitCandidatesAnyCurrency(db, j) ==
    LET p == db.prepayments[j]
    IN  {k \in DOMAIN db.splits :
            /\ db.splits[k].participant = p.from_participant
            /\ ExpenseById(db, db.splits[k].expense).payer = p.to_participant
            /\ ~db.splits[k].is_settlement
            /\ db.splits[k].left_trip > ZERO}

\* The Splits apply_prepayment_to_splits queries for the prepayment at
\* position j.
SplitCandidates(db, j) ==
    LET p == db.prepayments[j]
    IN  {k \in DOMAIN db.splits :
            /\ db.splits[k].participant = p.from_participant
            /\ ExpenseById(db, db.splits[k].expense).payer = p.to_participant
            /\ ~db.splits[k].is_settlement
            /\ db.splits[k].left_trip > ZERO
            /\ (p.currency # TripCurrency =>
                  ExpenseById(db, db.splits[k].expense).expense_currency = p.currency)}

\* apply_prepayment_to_splits(prepayment, trip), for the Prepayment at
\* position j and the queried Splits in the order given.
apply_prepayment_to_splits(db, j, order) ==
    IF db.prepayments[j].amount_left <= ZERO THEN db
    ELSE LET r == ApplyPrepaymentLoop(db, db.prepayments[j], order, db.splits)
         IN  [db EXCEPT !.splits = r.splits, !.prepayments[j] = r.prepayment]

\* order_by("expense__created_at"): every order of the rows S that is
\* ascending in the expense's created_at; rows with equal created_at come
\* in whatever order the database returns them.
RECURSIVE Orders(_)
Orders(S) ==
    IF S = {} THEN {<<>>}
    ELSE UNION {{<<k>> \o o : o \in Orders(S \ {k})} : k \in S}

\* FifoOrders with a fault: the query has no order_by, the rows come in
\* any order.
FifoOrdersUnordered(db, S) == Orders(S)

FifoOrders(db, S) ==
    {o \in Orders(S) :
        \A a, b \in 1..Len(o) :
            a < b => ExpenseById(db, db.splits[o[a]].expense).created_at
                       <= ExpenseById(db, db.splits[o[b]].expense).created_at}

\* ------------------------------------------------------ cross-settlement
\* cross_settle_split is defined in the reconciliation module and called by
\* no handler: the operators below are what a call would do.

\* The opposing Splits cross_settle_split queries for the Split at position
\* k: its payer owes its participant, on an expense of the same currency.
OpposingSplits(db, k) ==
    LET split == db.splits[k]
        expense == ExpenseById(db, split.expense)
    IN  {o \in DOMAIN db.splits :
            /\ db.splits[o].participant = expense.payer
            /\ ExpenseById(db, db.splits[o].expense).payer = split.participant
            /\ ~db.splits[o].is_settlement
            /\ db.splits[o].left_trip > ZERO
            /\ ExpenseById(db, db.splits[o].expense).expense_currency
                  = expense.expense_currency}

\* One pass of the loop for two Splits of trip-currency expenses.
CrossSettleInTripCurrency(split, opposing, new_rate, opposing_rate) ==
    LET settleable_trip == _min_positive({split.left_trip, opposing.left_trip})
        settleable_new_cost == IF new_rate # ZERO THEN DivRate(settleable_trip, new_rate)
                               ELSE settleable_trip
        settleable_opp_cost == IF opposing_rate # ZERO
                               THEN DivRate(settleable_trip, opposing_rate)
                               ELSE settleable_trip
    IN  [split |-> [split EXCEPT
                      !.left_trip = @ - settleable_trip,
                      !.left_cost = Max(ZERO, @ - settleable_new_cost)],
         opposing |-> [opposing EXCEPT
                      !.left_trip = @ - settleable_trip,
                      !.left_cost = Max(ZERO, @ - settleable_opp_cost)]]

\* One pass of the loop for two Splits of expenses in one foreign currency.
CrossSettleInCostCurrency(split, opposing, new_rate, opposing_rate) ==
    LET settleable_cost == _min_positive({split.left_cost, opposing.left_cost})
        settleable_new_trip == TimesRate(settleable_cost, new_rate)
        settleable_opp_trip == TimesRate(settleable_cost, opposing_rate)
    IN  [split |-> [split EXCEPT
                      !.left_cost = @ - settleable_cost,
                      !.left_trip = Max(ZERO, @ - settleable_new_trip)],
         opposing |-> [opposing EXCEPT
                      !.left_cost = @ - settleable_cost,
                      !.left_trip = Max(ZERO, @ - settleable_opp_trip)]]

RECURSIVE CrossSettleLoop(_, _, _, _)
\* for opposing in opposing_splits: ...; order holds the positions of the
\* queried Splits as the query returned them, spl the Split rows as saved
\* so far.  min() of no positive value raises ValueError.
CrossSettleLoop(db, split, order, spl) ==
    IF order = <<>> \/ split.left_trip <= ZERO
    THEN [split |-> split, splits |-> spl, raised |-> FALSE]
    ELSE LET o == Head(order)
             opposing == spl[o]
             expense == ExpenseById(db, split.expense)
             opposing_rate == ExpenseById(db, opposing.expense).rate
         IN  IF expense.expense_currency = TripCurrency
             THEN LET r == CrossSettleInTripCurrency(split, opposing, expense.rate,
                                                     opposing_rate)
                  IN  CrossSettleLoop(db, r.split, Tail(order),
                                      [spl EXCEPT ![o] = _update_is_settlement(r.opposing)])
             ELSE IF split.left_cost <= ZERO /\ opposing.left_cost <= ZERO
             THEN [split |-> split, splits |-> spl, raised |-> TRUE]
             ELSE LET r == CrossSettleInCostCurrency(split, opposing, expense.rate,
                                                     opposing_rate)
                  IN  CrossSettleLoop(db, r.split, Tail(order),
                                      [spl EXCEPT ![o] = _update_is_settlement(r.opposing)])

\* cross_settle_split(split, trip), for the Split at position k and the
\* opposing Splits in the order given.
cross_settle_split(db, k, order) ==
    IF db.splits[k].left_trip <= ZERO THEN [db |-> db, outcome |-> "ok"]
    ELSE LET r == CrossSettleLoop(db, db.splits[k], order, db.splits)
         IN  IF r.raised THEN [db |-> [db EXCEPT !.splits = r.splits], outcome |-> "error"]
             ELSE [db |-> [db EXCEPT !.splits =
                              [r.splits EXCEPT ![k] = _update_is_settlement(r.split)]],
                   outcome |-> "ok"]

\* ------------------------------------------------- settlement aggregator
\* trip_debts[(a, b)] of recalculate_settlements: what a owes b, in trip
\* currency, from the unsettled Splits and from the Prepayments b made to a.
TripDebt(db, a, b) ==
    LET S == {k \in DOMAIN db.splits :
                /\ ~db.splits[k].is_settlement
                /\ ~(db.splits[k].left_trip <= ZERO /\ db.splits[k].left_cost <= ZERO)
                /\ db.splits[k].participant = a
                /\ ExpenseById(db, db.splits[k].expense).payer = b
                /\ db.splits[k].left_trip > ZERO}
        P == {j \in DOMAIN db.prepayments :
                /\ db.prepayments[j].amount_left > ZERO
                /\ db.prepayments[j].to_participant = a
                /\ db.prepayments[j].from_participant = b}
    IN  SumOver(S, [k \in S |-> db.splits[k].left_trip])
        + SumOver(P, [j \in P |-> TimesRate(db.prepayments[j].amount_left,
                                             db.prepayments[j].rate)])

\* OtherDebt with a fault: a foreign Split and a Prepayment are counted in
\* trip currency (left_trip, amount_left * rate).
OtherDebtInTripCurrency(db, a, b, curr) ==
    LET open == {k \in DOMAIN db.splits :
                /\ ~db.splits[k].is_settlement
                /\ db.splits[k].participant = a
                /\ ExpenseById(db, db.splits[k].expense).payer = b
                /\ ExpenseById(db, db.splits[k].expense).expense_currency = curr
                /\ db.splits[k].left_trip > ZERO}
        P == {j \in DOMAIN db.prepayments :
                /\ db.prepayments[j].amount_left > ZERO
                /\ db.prepayments[j].to_participant = a
                /\ db.prepayments[j].from_participant = b
                /\ db.prepayments[j].currency = curr}
    IN  SumOver(open, [k \in open |-> db.splits[k].left_trip])
        + SumOver(P, [j \in P |-> TimesRate(db.prepayments[j].amount_left,
                                             db.prepayments[j].rate)])

\* other_debts[(a, b, curr)]: what a owes b in currency curr.
OtherDebt(db, a, b, curr) ==
    LET open == {k \in DOMAIN db.splits :
                /\ ~db.splits[k].is_settlement
                /\ ~(db.splits[k].left_trip <= ZERO /\ db.splits[k].left_cost <= ZERO)
                /\ db.splits[k].participant = a
                /\ ExpenseById(db, db.splits[k].expense).payer = b}
        T == {k \in open :
                /\ ExpenseById(db, db.splits[k].expense).expense_currency = TripCurrency
                /\ curr = TripCurrency
                /\ db.splits[k].left_trip > ZERO}
        F == {k \in open :
                /\ ExpenseById(db, db.splits[k].expense).expense_currency # TripCurrency
                /\ ExpenseById(db, db.splits[k].expense).expense_currency = curr
                /\ db.splits[k].left_cost > ZERO}
        P == {j \in DOMAIN db.prepayments :
                /\ db.prepayments[j].amount_left > ZERO
                /\ db.prepayments[j].to_participant = a
                /\ db.prepayments[j].from_participant = b
                /\ db.prepayments[j].currency = curr}
    IN  SumOver(T, [k \in T |-> db.splits[k].left_trip])
        + SumOver(F, [k \in F |-> db.splits[k].left_cost])
        + SumOver(P, [j \in P |-> db.prepayments[j].amount_left])

\* The keys the code has put into trip_debts and other_debts: a key exists
\* once an amount was added under it.
TripKeys(db) ==
    {pr \in Participants \X Participants :
        /\ pr[1] # pr[2]
        /\ \/ \E k \in DOMAIN db.splits :
                /\ ~db.splits[k].is_settlement
                /\ db.splits[k].participant = pr[1]
                /\ ExpenseById(db, db.splits[k].expense).payer = pr[2]
                /\ db.splits[k].left_trip > ZERO
           \/ \E j \in DOMAIN db.prepayments :
                /\ db.prepayments[j].amount_left > ZERO
                /\ db.prepayments[j].to_participant = pr[1]
                /\ db.prepayments[j].from_participant = pr[2]}

OtherKeys(db) ==
    {tr \in Participants \X Participants \X Currencies :
        /\ tr[1] # tr[2]
        /\ OtherDebt(db, tr[1], tr[2], tr[3]) > ZERO}

\* Reverse with a fault: the key is looked up as it is, not reversed.
ReverseUnturned(key) == key

Reverse(key) == [key EXCEPT ![1] = key[2], ![2] = key[1]]

RECURSIVE SetToSeq(_)
\* The elements of S in some order.
SetToSeq(S) ==
    IF S = {} THEN <<>>
    ELSE LET x == CHOOSE y \in S : TRUE IN <<x>> \o SetToSeq(S \ {x})

\* Net with a fault: the reverse debt is not subtracted.
NetWithoutReverse(debts, key) == debts[key]

\* reverse = debts.get((b, a), ZERO); net = amount - reverse
Net(debts, key) == debts[key] - debts[Reverse(key)]

RECURSIVE NetLoop(_, _, _, _)
\* for key, amount in debts.items(): ... with the set processed; keys are
\* the dict's keys in iteration order and debts maps every key to its
\* amount (ZERO when the dict has no such key).  The rows come out as
\* <<key, amount>>.
NetLoop(keys, debts, processed, netted) ==
    IF keys = <<>> THEN netted
    ELSE LET key == Head(keys)
             rest == Tail(keys)
         IN  IF key \in processed THEN NetLoop(rest, debts, processed, netted)
             ELSE LET net == Net(debts, key)
                      done == processed \cup {key, Reverse(key)}
                  IN  IF net > ZERO
                      THEN NetLoop(rest, debts, done, netted \cup {<<key, net>>})
                      ELSE IF net < ZERO
                      THEN NetLoop(rest, debts, done,
                                   netted \cup {<<Reverse(key), -net>>})
                      ELSE NetLoop(rest, debts, done, netted)

\* NettedTrip with a fault: the rows point from the creditor to the debtor.
NettedTripBackwards(db, keys) ==
    LET debts == [pr \in Participants \X Participants |->
                     TripDebt(db, pr[1], pr[2])]
    IN  {[from_participant |-> row[1][2], to_participant |-> row[1][1],
          amount |-> row[2]] : row \in NetLoop(keys, debts, {}, {})}

\* netted_trip, for the dict trip_debts iterated in the order keys.
NettedTrip(db, keys) ==
    LET debts == [pr \in Participants \X Participants |->
                     TripDebt(db, pr[1], pr[2])]
    IN  {[from_participant |-> row[1][1], to_participant |-> row[1][2],
          amount |-> row[2]] : row \in NetLoop(keys, debts, {}, {})}

\* netted_other, for the dict other_debts iterated in the order keys.
NettedOther(db, keys) ==
    LET debts == [tr \in Participants \X Participants \X Currencies |->
                     OtherDebt(db, tr[1], tr[2], tr[3])]
    IN  {[from_participant |-> row[1][1], to_participant |-> row[1][2],
          currency |-> row[1][3], amount |-> row[2]] :
            row \in NetLoop(keys, debts, {}, {})}

\* recalculate_settlements(trip): both tables are emptied and refilled.
recalculate_settlements(db) ==
    [db EXCEPT !.settlementTrip = NettedTrip(db, SetToSeq(TripKeys(db))),
               !.settlementOther = NettedOther(db, SetToSeq(OtherKeys(db)))]

\* --------------------------------------------------------- split builder
_is_settlement(payer_id, participant_id) == payer_id = participant_id

\* _compute_split_amounts with a fault: the trip-currency entries are
\* summed and converted to cost currency at once, with one rounding.
ComputeSplitAmountsRoundedOnce(split_value, trip_currency, rate) ==
    LET main == {i \in DOMAIN split_value : split_value[i].currency = trip_currency}
        other == DOMAIN split_value \ main
        main_sum == SumOver(main, [i \in main |-> split_value[i].amount])
        other_sum == SumOver(other, [i \in other |-> split_value[i].amount])
    IN  [cost |-> other_sum + DivRate(main_sum, rate),
         trip |-> main_sum + TimesRate(other_sum, rate)]

RECURSIVE _compute_split_amounts(_, _, _)
\* (split_amount_cost, split_amount_trip) of a share's split_value list.
_compute_split_amounts(split_value, trip_currency, rate) ==
    IF split_value = <<>> THEN [cost |-> ZERO, trip |-> ZERO]
    ELSE LET money == Head(split_value)
             rest == _compute_split_amounts(Tail(split_value), trip_currency, rate)
         IN  IF money.currency = trip_currency
             THEN [cost |-> (IF rate # ZERO THEN DivRate(money.amount, rate) ELSE ZERO)
                            + rest.cost,
                   trip |-> money.amount + rest.trip]
             ELSE [cost |-> money.amount + rest.cost,
                   trip |-> TimesRate(money.amount, rate) + rest.trip]

\* NewSplit with a fault: the payer's own Split keeps its share as its
\* remainder (the "ZERO if is_settled" of the two left_* fields is lost).
NewSplitPayerOwes(expense, share) ==
    LET amt == _compute_split_amounts(share.split_value, TripCurrency, expense.rate)
    IN  [participant |-> share.participant_id,
         expense |-> expense.expense_id,
         is_settlement |-> _is_settlement(expense.payer, share.participant_id),
         amount_cost |-> amt.cost,
         amount_trip |-> amt.trip,
         left_cost |-> amt.cost,
         left_trip |-> amt.trip]

\* The Split that add_expense creates for one share.
NewSplit(expense, share) ==
    LET amt == _compute_split_amounts(share.split_value, TripCurrency, expense.rate)
        is_settled == _is_settlement(expense.payer, share.participant_id)
    IN  [participant |-> share.participant_id,
         expense |-> expense.expense_id,
         is_settlement |-> is_settled,
         amount_cost |-> amt.cost,
         amount_trip |-> amt.trip,
         left_cost |-> IF is_settled THEN ZERO ELSE amt.cost,
         left_trip |-> IF is_settled THEN ZERO ELSE amt.trip]

RECURSIVE ReconcileEach(_, _)
\* for split in splits_to_reconcile: apply_prepayments_to_split(split, trip)
ReconcileEach(db, ks) ==
    IF ks = <<>> THEN db
    ELSE ReconcileEach(apply_prepayments_to_split(db, Head(ks)), Tail(ks))

RECURSIVE CreateSplits(_, _, _)
\* for share in data["shared_with"]: ... of add_expense, up to the first
\* participant that Participant.objects.get does not find (which raises
\* with the rows created so far already saved).
CreateSplits(db, expense, shares) ==
    IF shares = <<>> THEN [db |-> db, raised |-> FALSE]
    ELSE IF Head(shares).participant_id \notin Participants
    THEN [db |-> db, raised |-> TRUE]
    ELSE CreateSplits([db EXCEPT !.splits = Append(@, NewSplit(expense, Head(shares)))],
                      expense, Tail(shares))

\* The Expense row add_expense creates.
NewExpense(db, data, rate) ==
    [expense_id |-> db.nextExpenseId, payer |-> data.payer_id,
     expense_currency |-> data.currency, rate |-> rate, created_at |-> data.date]

\* The database of add_expense when its loop over the shares ends (or
\* raises), before any reconciliation.
AddExpenseCreated(db, data, rate) ==
    LET expense == NewExpense(db, data, rate)
    IN  CreateSplits([db EXCEPT !.expenses = Append(@, expense),
                                !.nextExpenseId = @ + 1],
                     expense, data.shared_with)

\* add_expense(request, data) with the rate the provider answered: the
\* database afterwards and how the call ended ("ok": a success result,
\* "fail": a failure result, "error": an exception left the handler).
add_expense(db, data, rate) ==
    IF data.payer_id \notin Participants
    THEN [db |-> db, outcome |-> "error"]
    ELSE LET built == AddExpenseCreated(db, data, rate)
             first == Len(db.splits) + 1
             splits_to_reconcile ==
                 SelectSeqBy([k \in DOMAIN built.db.splits |-> k], first,
                             {k \in DOMAIN built.db.splits :
                                 k >= first /\ ~built.db.splits[k].is_settlement})
         IN  IF built.raised THEN [db |-> built.db, outcome |-> "error"]
             ELSE [db |-> recalculate_settlements(
                             ReconcileEach(built.db, splits_to_reconcile)),
                   outcome |-> "ok"]

\* ----------------------------------------------------- expense mutations
\* _verify_payer_is_caller with a fault: any caller passes.
VerifyAnyCaller(caller, expense) == TRUE

\* _verify_payer_is_caller: every Participant of the model is bound to the
\* user of the same number.
_verify_payer_is_caller(caller, expense) == expense.payer = caller

SplitsOf(db, expense_id) ==
    {k \in DOMAIN db.splits : db.splits[k].expense = expense_id}

RECURSIVE OldSettledCost(_, _, _)
\* old_settled_cost of update_expense: participant -> max(ZERO, amount -
\* left) in cost currency, filled over the old splits in primary-key order
\* (a later split of the same participant overwrites an earlier one).
OldSettledCost(spl, expense_id, acc) ==
    IF spl = <<>> THEN acc
    ELSE LET sp == Head(spl)
         IN  IF sp.expense = expense_id
             THEN OldSettledCost(Tail(spl), expense_id,
                    [acc EXCEPT ![sp.participant] =
                        Max(ZERO, sp.amount_cost - sp.left_cost)])
             ELSE OldSettledCost(Tail(spl), expense_id, acc)

\* NewPrepayment with a fault: the Prepayment is created already spent.
NewPrepaymentSpent(from, to, amount, currency, rate) ==
    [from_participant |-> from, to_participant |-> to, amount |-> amount,
     amount_left |-> ZERO, currency |-> currency, rate |-> rate]

\* Prepayment.objects.create(...); a call that gives no rate gets the
\* column default, 1.
NewPrepayment(from, to, amount, currency, rate) ==
    [from_participant |-> from, to_participant |-> to, amount |-> amount,
     amount_left |-> amount, currency |-> currency, rate |-> rate]

\* OverpaidCost with a fault: the whole settled amount is refunded, not the
\* part above the new share.
OverpaidCostWhole(prev_settled_cost, new_cost) == prev_settled_cost

\* overpaid_cost = prev_settled_cost - new_cost
OverpaidCost(prev_settled_cost, new_cost) == prev_settled_cost - new_cost

RECURSIVE RebuildSplits(_, _, _, _)
\* Steps 3 and 4 of update_expense: the loop over data["shared_with"].
RebuildSplits(db, expense, shares, old_settled_cost) ==
    IF shares = <<>> THEN [db |-> db, raised |-> FALSE]
    ELSE IF Head(shares).participant_id \notin Participants
    THEN [db |-> db, raised |-> TRUE]
    ELSE LET share == Head(shares)
             pid == share.participant_id
             amt == _compute_split_amounts(share.split_value, TripCurrency,
                                           expense.rate)
             is_settled == _is_settlement(expense.payer, pid)
             prev_settled_cost == old_settled_cost[pid]
             overpaid == ~is_settled /\ prev_settled_cost > amt.cost
             left_cost == IF is_settled \/ overpaid THEN ZERO
                          ELSE amt.cost - prev_settled_cost
             \* left_trip = (new_trip * (left_cost / new_cost)).quantize(0.01)
             left_trip == IF is_settled \/ overpaid THEN ZERO
                          ELSE IF amt.cost > ZERO
                          THEN Quantize(amt.trip * left_cost, amt.cost)
                          ELSE ZERO
             split == [participant |-> pid, expense |-> expense.expense_id,
                       is_settlement |-> is_settled,
                       amount_cost |-> amt.cost, amount_trip |-> amt.trip,
                       left_cost |-> left_cost, left_trip |-> left_trip]
             db1 == IF overpaid
                    THEN [db EXCEPT !.prepayments =
                            Append(@, NewPrepayment(pid, expense.payer,
                                        OverpaidCost(prev_settled_cost, amt.cost),
                                        expense.expense_currency, RateOne))]
                    ELSE db
         IN  RebuildSplits([db1 EXCEPT !.splits = Append(@, split)],
                           expense, Tail(shares), old_settled_cost)

\* update_expense(request, data) called by user caller, with the rate the
\* provider answered.
update_expense(db, caller, data, rate) ==
    IF data.expense_id \notin ExpenseIds(db)
    THEN [db |-> db, outcome |-> "error"]
    ELSE IF ~_verify_payer_is_caller(caller, ExpenseById(db, data.expense_id))
    THEN [db |-> db, outcome |-> "fail"]
    ELSE LET old_settled_cost ==
                 OldSettledCost(db.splits, data.expense_id,
                                [p \in Participants |-> ZERO])
             \* Step 2: the old splits are deleted
             db1 == [db EXCEPT !.splits =
                        SelectSeqBy(@, 1, DOMAIN @ \ SplitsOf(db, data.expense_id))]
             expense == [expense_id |-> data.expense_id,
                         payer |-> data.payer_id,
                         expense_currency |-> data.currency,
                         rate |-> rate,
                         created_at |-> data.date]
             db2 == [db1 EXCEPT !.expenses =
                        [i \in DOMAIN @ |->
                            IF @[i].expense_id = data.expense_id
                            THEN expense ELSE @[i]]]
             built == RebuildSplits(db2, expense, data.shared_with, old_settled_cost)
             first == Len(db1.splits) + 1
             splits_to_reconcile ==
                 SelectSeqBy([k \in DOMAIN built.db.splits |-> k], first,
                             {k \in DOMAIN built.db.splits :
                                 /\ k >= first
                                 /\ ~built.db.splits[k].is_settlement
                                 /\ built.db.splits[k].left_cost > ZERO})
         IN  \* the new payer is looked up after the delete, before the save
             IF data.payer_id \notin Participants
             THEN [db |-> db1, outcome |-> "error"]
             ELSE IF built.raised THEN [db |-> built.db, outcome |-> "error"]
             ELSE [db |-> recalculate_settlements(
                             ReconcileEach(built.db, splits_to_reconcile)),
                   outcome |-> "ok"]

RECURSIVE RefundSettled(_, _, _)
\* for split in splits: ... of delete_expense: a Prepayment for the settled
\* part of every split whose is_settlement is false.
RefundSettled(preps, spl, expense) ==
    IF spl = <<>> THEN preps
    ELSE LET sp == Head(spl)
             settled_cost == sp.amount_cost - sp.left_cost
         IN  IF sp.expense = expense.expense_id /\ ~sp.is_settlement
                /\ settled_cost > ZERO
             THEN RefundSettled(
                    Append(preps, NewPrepayment(sp.participant, expense.payer,
                                    settled_cost, expense.expense_currency, RateOne)),
                    Tail(spl), expense)
             ELSE RefundSettled(preps, Tail(spl), expense)

\* delete_expense(request, trip_id, expense_id) called by user caller.
delete_expense(db, caller, expense_id) ==
    IF expense_id \notin ExpenseIds(db)
    THEN [db |-> db, outcome |-> "error"]
    ELSE IF ~_verify_payer_is_caller(caller, ExpenseById(db, expense_id))
    THEN [db |-> db, outcome |-> "fail"]
    ELSE LET expense == ExpenseById(db, expense_id)
             db1 == [db EXCEPT
                       !.prepayments = RefundSettled(@, db.splits, expense),
                       !.splits = SelectSeqBy(@, 1, DOMAIN @ \ SplitsOf(db, expense_id)),
                       !.expenses = SelectSeqBy(@, 1,
                           {i \in DOMAIN @ : @[i].expense_id # expense_id})]
         IN  [db |-> recalculate_settlements(db1), outcome |-> "ok"]

\* -------------------------------------------------- prepayment mutation
VALID_DIRECTIONS == {"TO_ME", "FROM_ME"}

\* AddPrepaymentRejection with a fault: the check that the caller and the
\* other participant differ is missing.
AddPrepaymentRejectionSelfAllowed(db, caller, participant_id, amount, currency, direction) ==
    IF amount <= ZERO THEN "Amount must be positive."
    ELSE IF currency = "" THEN "Currency is required."
    ELSE IF direction \notin VALID_DIRECTIONS THEN "Direction must be TO_ME or FROM_ME."
    ELSE IF caller \notin Participants THEN "You are not a participant in this trip."
    ELSE IF participant_id \notin Participants THEN "Participant not found in this trip."
    ELSE IF currency # TripCurrency
            /\ ~\E i \in DOMAIN db.expenses : db.expenses[i].expense_currency = currency
    THEN "No expenses in this currency for this trip."
    ELSE ""

\* The checks of add_prepayment, in the order of the code: the message of
\* the first one that fails, or "" when the input passes.
AddPrepaymentRejection(db, caller, participant_id, amount, currency, direction) ==
    IF amount <= ZERO THEN "Amount must be positive."
    ELSE IF currency = "" THEN "Currency is required."
    ELSE IF direction \notin VALID_DIRECTIONS THEN "Direction must be TO_ME or FROM_ME."
    ELSE IF caller \notin Participants THEN "You are not a participant in this trip."
    ELSE IF participant_id \notin Participants THEN "Participant not found in this trip."
    ELSE IF caller = participant_id THEN "Cannot create a prepayment to yourself."
    ELSE IF currency # TripCurrency
            /\ ~\E i \in DOMAIN db.expenses : db.expenses[i].expense_currency = currency
    THEN "No expenses in this currency for this trip."
    ELSE ""

\* The database right after Prepayment.objects.create in add_prepayment.
AddPrepaymentCreated(db, caller, participant_id, amount, currency, direction) ==
    LET from_participant == IF direction = "FROM_ME" THEN caller ELSE participant_id
        to_participant == IF direction = "FROM_ME" THEN participant_id ELSE caller
    IN  [db EXCEPT !.prepayments =
            Append(@, NewPrepayment(from_participant, to_participant, amount,
                                    currency, RateOne))]

\* add_prepayment(request, trip_id, participant_id, amount, currency,
\* direction) called by user caller; order is the order in which the query
\* of apply_prepayment_to_splits returned the candidate Splits.
add_prepayment(db, caller, participant_id, amount, currency, direction, order) ==
    IF AddPrepaymentRejection(db, caller, participant_id, amount, currency,
                              direction) # ""
    THEN [db |-> db, outcome |-> "fail"]
    ELSE LET db1 == AddPrepaymentCreated(db, caller, participant_id, amount,
                                         currency, direction)
         IN  [db |-> recalculate_settlements(
                        apply_prepayment_to_splits(db1, Len(db1.prepayments), order)),
              outcome |-> "ok"]

\* ------------------------------------------------- manual settlement
SettleByAmountRejection(caller, from_user_id, to_user_id, amount) ==
    IF amount <= ZERO THEN "Amount must be positive."
    ELSE IF from_user_id \notin Participants
    THEN "From participant not found in this trip."
    ELSE IF to_user_id \notin Participants
    THEN "To participant not found in this trip."
    ELSE IF from_user_id = to_user_id THEN "Cannot settle with yourself."
    ELSE IF caller \notin Participants THEN "You are not a participant in this trip."
    ELSE IF caller \notin {from_user_id, to_user_id}
    THEN "You can only settle debts you are involved in."
    ELSE ""

\* The Splits settle_by_amount queries.
\* SettleCandidates with a fault: the filter on the expense's currency is
\* missing.
SettleCandidatesOfAnyCurrency(db, from_user_id, to_user_id, currency, is_main_currency) ==
    {k \in DOMAIN db.splits :
        /\ db.splits[k].participant = from_user_id
        /\ ExpenseById(db, db.splits[k].expense).payer = to_user_id
        /\ ~db.splits[k].is_settlement
        /\ IF is_main_currency THEN db.splits[k].left_trip > ZERO
           ELSE db.splits[k].left_cost > ZERO}

SettleCandidates(db, from_user_id, to_user_id, currency, is_main_currency) ==
    {k \in DOMAIN db.splits :
        /\ db.splits[k].participant = from_user_id
        /\ ExpenseById(db, db.splits[k].expense).payer = to_user_id
        /\ ~db.splits[k].is_settlement
        /\ (~is_main_currency =>
              ExpenseById(db, db.splits[k].expense).expense_currency = currency)
        /\ IF is_main_currency THEN db.splits[k].left_trip > ZERO
           ELSE db.splits[k].left_cost > ZERO}

RECURSIVE SettleLoop(_, _, _, _, _)
\* for split in splits: ... of settle_by_amount.
SettleLoop(db, spl, order, remaining, is_main_currency) ==
    IF order = <<>> \/ remaining <= ZERO
    THEN [splits |-> spl, remaining |-> remaining]
    ELSE LET k == Head(order)
             sp == spl[k]
             rate == ExpenseById(db, sp.expense).rate
         IN  IF is_main_currency
             THEN LET settleable_trip == Min(remaining, sp.left_trip)
                      settleable_cost == IF rate # ZERO
                                         THEN DivRate(settleable_trip, rate)
                                         ELSE settleable_trip
                      sp1 == [sp EXCEPT
                                !.left_trip = @ - settleable_trip,
                                !.left_cost = Max(ZERO, @ - settleable_cost)]
                  IN  SettleLoop(db, [spl EXCEPT ![k] = _update_is_settlement(sp1)],
                                 Tail(order), remaining - settleable_trip,
                                 is_main_currency)
             ELSE LET settleable_cost == Min(remaining, sp.left_cost)
                      settleable_trip == TimesRate(settleable_cost, rate)
                      sp1 == [sp EXCEPT
                                !.left_cost = @ - settleable_cost,
                                !.left_trip = Max(ZERO, @ - settleable_trip)]
                  IN  SettleLoop(db, [spl EXCEPT ![k] = _update_is_settlement(sp1)],
                                 Tail(order), remaining - settleable_cost,
                                 is_main_currency)

\* settle_by_amount(request, trip_id, from_user_id, to_user_id, amount,
\* currency, is_main_currency) called by user caller; order is the order in
\* which the query returned the candidates and rate the provider's answer
\* for (currency, trip currency).
\* What settle_by_amount has written when its loop and the creation of the
\* leftover Prepayment are done, before the summaries are rebuilt.
SettleByAmountWritten(db, from_user_id, to_user_id, amount, currency, is_main_currency, order, rate) ==
    LET r == SettleLoop(db, db.splits, order, amount, is_main_currency)
        prep_currency == IF is_main_currency THEN TripCurrency ELSE currency
        prep_rate == IF is_main_currency THEN RateOne ELSE rate
        db1 == [db EXCEPT !.splits = r.splits]
    IN  IF r.remaining > ZERO
        THEN [db1 EXCEPT !.prepayments =
                Append(@, NewPrepayment(from_user_id, to_user_id,
                            r.remaining, prep_currency, prep_rate))]
        ELSE db1

settle_by_amount(db, caller, from_user_id, to_user_id, amount, currency, is_main_currency, order, rate) ==
    IF SettleByAmountRejection(caller, from_user_id, to_user_id, amount) # ""
    THEN [db |-> db, outcome |-> "fail"]
    ELSE [db |-> recalculate_settlements(
                    SettleByAmountWritten(db, from_user_id, to_user_id, amount,
                                          currency, is_main_currency, order, rate)),
          outcome |-> "ok"]

\* ForceSettled with a fault: the cost-currency remainder is kept.
ForceSettledInTripCurrencyOnly(split) ==
    [split EXCEPT !.left_trip = ZERO, !.is_settlement = TRUE]

\* The three assignments of settle_by_costs before split.save().
ForceSettled(split) ==
    [split EXCEPT !.left_cost = ZERO, !.left_trip = ZERO, !.is_settlement = TRUE]

RECURSIVE SettleItems(_, _, _)
\* for item in items: ... of settle_by_costs: each item's split is saved
\* as soon as it is set, so a later item that is refused leaves the
\* earlier ones written.
SettleItems(db, caller, items) ==
    IF items = <<>> THEN [db |-> db, outcome |-> "ok"]
    ELSE LET item == Head(items)
             found == {k \in SplitsOf(db, item.expense_id) :
                         db.splits[k].participant = item.participant_id}
         IN  IF item.expense_id \notin ExpenseIds(db)
             THEN [db |-> db, outcome |-> "fail"]
             ELSE IF caller \notin {ExpenseById(db, item.expense_id).payer,
                                    item.participant_id}
             THEN [db |-> db, outcome |-> "fail"]
             ELSE IF found = {} THEN [db |-> db, outcome |-> "fail"]
             \* Split.objects.get raises MultipleObjectsReturned
             ELSE IF Cardinality(found) > 1 THEN [db |-> db, outcome |-> "error"]
             ELSE LET k == CHOOSE x \in found : TRUE
                  IN  SettleItems([db EXCEPT !.splits[k] = ForceSettled(@)],
                                  caller, Tail(items))

\* settle_by_costs(request, trip_id, items) called by user caller.
settle_by_costs(db, caller, items) ==
    IF items = <<>> THEN [db |-> db, outcome |-> "fail"]
    ELSE IF caller \notin Participants THEN [db |-> db, outcome |-> "fail"]
    ELSE LET r == SettleItems(db, caller, items)
         IN  IF r.outcome = "ok"
             THEN [db |-> recalculate_settlements(r.db), outcome |-> "ok"]
             ELSE r

\* ------------------------------------------------------------ the inputs
Money == [currency : Currencies, amount : 0..MaxAmount]

\* A share names a participant and gives its value as a list of money
\* entries.
Shares == [participant_id : Participants, split_value : {<<m>> : m \in Money}]
BadShare == [participant_id |-> NoSuchParticipant, split_value |-> <<>>]

RECURSIVE ShareListsOfLen(_)
ShareListsOfLen(n) ==
    IF n = 0 THEN {<<>>}
    ELSE {Append(l, sh) : l \in ShareListsOfLen(n - 1), sh \in Shares}

\* The shared_with lists: up to MaxShares shares of participants of the
\* trip, or such a list cut short by a share naming an unknown participant
\* (what follows the unknown participant is never read).
ShareLists ==
    UNION {ShareListsOfLen(n) : n \in 1..MaxShares}
    \cup {Append(l, BadShare) :
            l \in UNION {ShareListsOfLen(n) : n \in 0..(MaxShares - 1)}}

\* Every expense payload within the bounds.
ExpenseData ==
    [payer_id : Participants, currency : Currencies, date : 1..MaxTime,
     shared_with : ShareLists]
    \cup {[payer_id |-> NoSuchParticipant, currency |-> TripCurrency, date |-> 1,
           shared_with |-> <<>>]}

\* The plain expense payloads: one share, of a positive amount given in the
\* expense's currency.
PlainExpenseData ==
    {[payer_id |-> payer, currency |-> currency, date |-> date,
      shared_with |-> <<[participant_id |-> p,
                         split_value |-> <<[currency |-> currency,
                                            amount |-> amount]>>]>>] :
        payer \in Participants, currency \in Currencies, date \in 1..MaxTime,
        p \in Participants, amount \in 1..MaxAmount}

Items == [expense_id : 1..MaxExpenses, participant_id : Participants]

RECURSIVE ItemListsOfLen(_)
ItemListsOfLen(n) ==
    IF n = 0 THEN {<<>>}
    ELSE {Append(l, it) : l \in ItemListsOfLen(n - 1), it \in Items}

ItemLists == UNION {ItemListsOfLen(n) : n \in 0..MaxItems}

Directions == VALID_DIRECTIONS \cup {"SIDEWAYS"}

\* ----------------------------------------------------------- the actions
\* The handler's writes reach the database; the caller gets the outcome.
Commit(r, op, limit) ==
    /\ nops < limit
    /\ Len(r.db.prepayments) <= MaxPrepayments
    /\ expenses' = r.db.expenses
    /\ splits' = r.db.splits
    /\ prepayments' = r.db.prepayments
    /\ settlementTrip' = r.db.settlementTrip
    /\ settlementOther' = r.db.settlementOther
    /\ nextExpenseId' = r.db.nextExpenseId
    /\ last' = [op |-> op, outcome |-> r.outcome]
    /\ nops' = nops + 1
    /\ UNCHANGED <<calls, base, reader>>
    /\ OutsideUnchanged

Init ==
    /\ expenses = <<>>
    /\ splits = <<>>
    /\ prepayments = <<>>
    /\ settlementTrip = {}
    /\ settlementOther = {}
    /\ nextExpenseId = 1
    /\ last = [op |-> "none", outcome |-> "ok"]
    /\ nops = 0
    /\ calls = <<>>
    /\ base = DB
    /\ reader = [pc |-> "idle", trip |-> {}, other |-> {}]
    /\ trips = <<>>
    /\ participants = {}
    /\ nextParticipantId = 1
    /\ elsewhere = DB
    /\ builder = [pc |-> "idle"]

AddExpenseOf(payloads, limit) ==
    /\ nops < limit
    /\ nextExpenseId <= MaxExpenses
    /\ \E data \in payloads :
         \E rate \in get_exchange_rate(data.currency, TripCurrency) :
            Commit(add_expense(DB, data, rate), "add_expense", limit)

WithId(data, id) ==
    [expense_id |-> id, payer_id |-> data.payer_id, currency |-> data.currency,
     date |-> data.date, shared_with |-> data.shared_with]

UpdateExpenseOf(callers, payloads, limit) ==
    /\ nops < limit
    /\ \E caller \in callers, id \in 1..MaxExpenses :
           IF id \notin ExpenseIds(DB) \/ ~_verify_payer_is_caller(caller, ExpenseById(DB, id))
           THEN \* refused before the payload is read
                \E data \in {CHOOSE d \in payloads : TRUE} :
                   Commit(update_expense(DB, caller, WithId(data, id), RateOne),
                          "update_expense", limit)
           ELSE \E data \in payloads :
                   \E rate \in get_exchange_rate(data.currency, TripCurrency) :
                       Commit(update_expense(DB, caller, WithId(data, id), rate),
                              "update_expense", limit)

DeleteExpenseOf(callers, limit) ==
    /\ nops < limit
    /\ \E caller \in callers, id \in 1..MaxExpenses :
           Commit(delete_expense(DB, caller, id), "delete_expense", limit)

AddPrepaymentOf(callers, others, amounts, currencies, directions, limit) ==
    /\ nops < limit
    /\ \E caller \in callers, participant_id \in others, amount \in amounts,
          currency \in currencies, direction \in directions :
           IF AddPrepaymentRejection(DB, caller, participant_id, amount, currency,
                                     direction) # ""
           THEN Commit(add_prepayment(DB, caller, participant_id, amount, currency,
                                      direction, <<>>), "add_prepayment", limit)
           ELSE LET db1 == AddPrepaymentCreated(DB, caller, participant_id, amount,
                                                currency, direction)
                IN  \E order \in FifoOrders(db1, SplitCandidates(db1, Len(db1.prepayments))) :
                       Commit(add_prepayment(DB, caller, participant_id, amount,
                                             currency, direction, order),
                              "add_prepayment", limit)

SettleByAmountOf(callers, parties, amounts, limit) ==
    /\ nops < limit
    /\ \E caller \in callers, from_user_id \in parties, to_user_id \in parties,
          amount \in amounts, currency \in Currencies, is_main_currency \in BOOLEAN :
           IF SettleByAmountRejection(caller, from_user_id, to_user_id, amount) # ""
           THEN Commit(settle_by_amount(DB, caller, from_user_id, to_user_id, amount,
                                        currency, is_main_currency, <<>>, RateOne),
                       "settle_by_amount", limit)
           ELSE \E order \in FifoOrders(DB, SettleCandidates(DB, from_user_id, to_user_id,
                                                             currency, is_main_currency)),
                   rate \in (IF is_main_currency THEN {RateOne}
                             ELSE get_exchange_rate(currency, TripCurrency)) :
                   Commit(settle_by_amount(DB, caller, from_user_id, to_user_id, amount,
                                           currency, is_main_currency, order, rate),
                          "settle_by_amount", limit)

SettleByCostsOf(callers, limit) ==
    /\ nops < limit
    /\ \E caller \in callers, items \in ItemLists :
           Commit(settle_by_costs(DB, caller, items), "settle_by_costs", limit)

\* The engine called with plain payloads by the trip's participants.
AddExpense == AddExpenseOf(PlainExpenseData, MaxOps)
UpdateExpense == UpdateExpenseOf(Participants, PlainExpenseData, MaxOps)
DeleteExpense == DeleteExpenseOf(Participants, MaxOps)
AddPrepayment ==
    AddPrepaymentOf(Participants, Participants, 1..MaxAmount, Currencies,
                    VALID_DIRECTIONS, MaxOps)
SettleByAmount ==
    SettleByAmountOf(Participants, Participants, 1..(MaxAmount + 1), MaxOps)
SettleByCosts == SettleByCostsOf(Participants, MaxOps)

Next ==
    \/ AddExpense
    \/ UpdateExpense
    \/ DeleteExpense
    \/ AddPrepayment
    \/ SettleByAmount
    \/ SettleByCosts

Spec == Init /\ [][Next]_vars

\* The engine called with every payload within the bounds, by participants
\* and by a user who is no participant of the trip.
AddExpenseAny == AddExpenseOf(ExpenseData, MaxInputOps)
UpdateExpenseAny == UpdateExpenseOf(ParticipantIds, ExpenseData, MaxInputOps)
DeleteExpenseAny == DeleteExpenseOf(ParticipantIds, MaxInputOps)
AddPrepaymentAny ==
    AddPrepaymentOf(ParticipantIds, ParticipantIds, 0..MaxAmount,
                    Currencies \cup {""}, Directions, MaxInputOps)
SettleByAmountAny ==
    SettleByAmountOf(ParticipantIds, ParticipantIds, 0..(MaxAmount + 1), MaxInputOps)
SettleByCostsAny == SettleByCostsOf(ParticipantIds, MaxInputOps)

NextAny ==
    \/ AddExpenseAny
    \/ UpdateExpenseAny
    \/ DeleteExpenseAny
    \/ AddPrepaymentAny
    \/ SettleByAmountAny
    \/ SettleByCostsAny

SpecAny == Init /\ [][NextAny]_vars

\* ----------------------------------------------- requests side by side
\* The handlers are coroutines with no transaction and no lock: every ORM
\* call is awaited on its own and commits on its own, and between two of a
\* request's awaits the awaits of another request may run.  A step below is
\* one awaited ORM call that reads or writes a table of the engine, with
\* the local computation that leads to it.  Row objects are local copies:
\* save() writes the copy's fields over the row.

\* The locals of a request that has passed its checks.
NewCall(op, from, to, amount, currency, is_main_currency) ==
    [op |-> op, from |-> from, to |-> to, amount |-> amount,
     currency |-> currency, is_main_currency |-> is_main_currency,
     pc |-> "query", spl |-> <<>>, order |-> <<>>, remaining |-> amount,
     j |-> 0, prepayment |-> <<>>, snap |-> <<>>,
     netted_trip |-> <<>>, netted_other |-> <<>>]

\* The locals a request has no use for any more are dropped.
Forget(call) == [call EXCEPT !.spl = <<>>, !.order = <<>>]

OtherVarsUnchanged ==
    /\ UNCHANGED <<expenses, nextExpenseId, last, nops, reader>>
    /\ OutsideUnchanged

\* The expense the concurrent requests work on: a plain payload of one
\* date and one payer (the participants differ in nothing but their number).
SetupExpenseData == {data \in PlainExpenseData : data.payer_id = 1 /\ data.date = 1}

\* It is created by an add_expense that runs alone.
SetupExpense ==
    /\ calls = <<>>
    /\ AddExpenseOf(SetupExpenseData, MaxSetupOps)

\* settle_by_amount up to splits = list(base_qs): the checks pass and the
\* candidate Splits are read.
BeginSettleByAmountOf(limit) ==
    /\ Len(calls) < limit
    /\ \E caller, from_user_id, to_user_id \in Participants,
          amount \in 1..MaxAmount, is_main_currency \in BOOLEAN :
        \E currency \in (IF is_main_currency THEN {TripCurrency} ELSE Currencies) :
          /\ SettleByAmountRejection(caller, from_user_id, to_user_id, amount) = ""
          /\ \E order \in FifoOrders(DB, SettleCandidates(DB, from_user_id, to_user_id,
                                                        currency, is_main_currency)) :
                calls' = Append(calls,
                    [NewCall("settle_by_amount", from_user_id, to_user_id, amount,
                             currency, is_main_currency)
                        EXCEPT !.spl = IF order = <<>> THEN <<>> ELSE splits,
                               !.order = order,
                               !.pc = IF order = <<>> THEN "leftover" ELSE "loop"])
    /\ base' = IF calls = <<>> THEN DB ELSE base
    /\ UNCHANGED <<splits, prepayments, settlementTrip, settlementOther>>
    /\ OtherVarsUnchanged

\* One pass of for split in splits: of settle_by_amount, ending with
\* split.save().
SettleSplit ==
    \E c \in DOMAIN calls :
    /\ calls[c].op = "settle_by_amount"
    /\ calls[c].pc = "loop"
    /\ LET call == calls[c]
           k == Head(call.order)
           r == SettleLoop(DB, call.spl, <<k>>, call.remaining, call.is_main_currency)
           more == Tail(call.order) # <<>> /\ r.remaining > ZERO
       IN  /\ splits' = [splits EXCEPT ![k] = r.splits[k]]
           /\ calls' = [calls EXCEPT ![c] =
                 IF more
                 THEN [call EXCEPT !.spl = r.splits, !.order = Tail(call.order),
                                   !.remaining = r.remaining]
                 ELSE [Forget(call) EXCEPT
                          !.remaining = r.remaining,
                          !.pc = IF r.remaining > ZERO THEN "leftover"
                                 ELSE "recalc_splits"]]
    /\ UNCHANGED <<prepayments, settlementTrip, settlementOther, base>>
    /\ OtherVarsUnchanged

\* if remaining > ZERO: Prepayment.objects.create(...) of settle_by_amount.
SettleLeftover ==
    \E c \in DOMAIN calls :
    /\ calls[c].op = "settle_by_amount"
    /\ calls[c].pc = "leftover"
    /\ LET call == calls[c]
       IN  \E rate \in (IF call.is_main_currency THEN {RateOne}
                        ELSE get_exchange_rate(call.currency, TripCurrency)) :
              /\ prepayments' =
                    Append(prepayments,
                           NewPrepayment(call.from, call.to, call.remaining,
                                         IF call.is_main_currency THEN TripCurrency
                                         ELSE call.currency,
                                         IF call.is_main_currency THEN RateOne ELSE rate))
              /\ calls' = [calls EXCEPT ![c] = [call EXCEPT !.pc = "recalc_splits"]]
    /\ UNCHANGED <<splits, settlementTrip, settlementOther, base>>
    /\ OtherVarsUnchanged

\* add_prepayment up to Prepayment.objects.create: the checks pass and the
\* row is created.
BeginAddPrepaymentOf(limit) ==
    /\ Len(calls) < limit
    /\ \E caller, participant_id \in Participants, amount \in 1..MaxAmount,
          currency \in Currencies, direction \in VALID_DIRECTIONS :
          /\ AddPrepaymentRejection(DB, caller, participant_id, amount, currency,
                                    direction) = ""
          /\ LET db1 == AddPrepaymentCreated(DB, caller, participant_id, amount,
                                             currency, direction)
                 j == Len(db1.prepayments)
             IN  /\ prepayments' = db1.prepayments
                 /\ calls' = Append(calls,
                       [NewCall("add_prepayment", db1.prepayments[j].from_participant,
                                db1.prepayments[j].to_participant, amount, currency,
                                currency = TripCurrency)
                           EXCEPT !.j = j, !.prepayment = db1.prepayments[j]])
    /\ base' = IF calls = <<>> THEN DB ELSE base
    /\ UNCHANGED <<splits, settlementTrip, settlementOther>>
    /\ OtherVarsUnchanged

\* splits = list(base_qs) of apply_prepayment_to_splits.
PrepaymentQuery ==
    \E c \in DOMAIN calls :
    /\ calls[c].op = "add_prepayment"
    /\ calls[c].pc = "query"
    /\ \E order \in FifoOrders(DB, SplitCandidates(DB, calls[c].j)) :
          calls' = [calls EXCEPT ![c] =
              [@ EXCEPT !.spl = IF order = <<>> THEN <<>> ELSE splits,
                        !.order = order,
                        !.pc = IF order = <<>> THEN "prepayment_save" ELSE "loop"]]
    /\ UNCHANGED <<splits, prepayments, settlementTrip, settlementOther, base>>
    /\ OtherVarsUnchanged

\* One pass of for split in splits: of apply_prepayment_to_splits, ending
\* with split.save().
PrepaymentSplit ==
    \E c \in DOMAIN calls :
    /\ calls[c].op = "add_prepayment"
    /\ calls[c].pc = "loop"
    /\ LET call == calls[c]
           k == Head(call.order)
           r == ApplyPrepaymentLoop(DB, call.prepayment, <<k>>, call.spl)
           more == Tail(call.order) # <<>> /\ r.prepayment.amount_left > ZERO
       IN  /\ splits' = [splits EXCEPT ![k] = r.splits[k]]
           /\ calls' = [calls EXCEPT ![c] =
                 IF more
                 THEN [call EXCEPT !.spl = r.splits, !.order = Tail(call.order),
                                   !.prepayment = r.prepayment]
                 ELSE [Forget(call) EXCEPT !.prepayment = r.prepayment,
                                           !.pc = "prepayment_save"]]
    /\ UNCHANGED <<prepayments, settlementTrip, settlementOther, base>>
    /\ OtherVarsUnchanged

\* prepayment.save() at the end of apply_prepayment_to_splits.
PrepaymentSave ==
    \E c \in DOMAIN calls :
    /\ calls[c].op = "add_prepayment"
    /\ calls[c].pc = "prepayment_save"
    /\ prepayments' = [prepayments EXCEPT ![calls[c].j] = calls[c].prepayment]
    /\ calls' = [calls EXCEPT ![c] = [@ EXCEPT !.pc = "recalc_splits"]]
    /\ UNCHANGED <<splits, settlementTrip, settlementOther, base>>
    /\ OtherVarsUnchanged

\* splits = list(Split.objects.filter(...)) of recalculate_settlements.
RecalcReadSplits ==
    \E c \in DOMAIN calls :
    /\ calls[c].pc = "recalc_splits"
    /\ calls' = [calls EXCEPT ![c] =
          [@ EXCEPT !.snap = splits, !.pc = "recalc_prepayments"]]
    /\ UNCHANGED <<splits, prepayments, settlementTrip, settlementOther, base>>
    /\ OtherVarsUnchanged

\* Where recalculate_settlements goes on when it has deleted, or created a
\* row: to the next row it has to create, or to its end.
AfterWrite(netted_trip, netted_other) ==
    IF netted_trip # <<>> THEN "create_trip"
    ELSE IF netted_other # <<>> THEN "create_other"
    ELSE "done"

\* prepayments = list(Prepayment.objects.filter(...)) of
\* recalculate_settlements, and the netting of what the two queries read.
RecalcReadPrepayments ==
    \E c \in DOMAIN calls :
    /\ calls[c].pc = "recalc_prepayments"
    /\ LET read == [DB EXCEPT !.splits = calls[c].snap]
       IN  calls' = [calls EXCEPT ![c] =
              [@ EXCEPT !.snap = <<>>,
                        !.netted_trip =
                            SetToSeq(NettedTrip(read, SetToSeq(TripKeys(read)))),
                        !.netted_other =
                            SetToSeq(NettedOther(read, SetToSeq(OtherKeys(read)))),
                        !.pc = "delete_trip"]]
    /\ UNCHANGED <<splits, prepayments, settlementTrip, settlementOther, base>>
    /\ OtherVarsUnchanged

\* SettlementTripCurrency.objects.filter(trip=trip).delete()
RecalcDeleteTrip ==
    \E c \in DOMAIN calls :
    /\ calls[c].pc = "delete_trip"
    /\ settlementTrip' = {}
    /\ calls' = [calls EXCEPT ![c] = [@ EXCEPT !.pc = "delete_other"]]
    /\ UNCHANGED <<splits, prepayments, settlementOther, base>>
    /\ OtherVarsUnchanged

\* SettlementOtherCurrency.objects.filter(trip=trip).delete()
RecalcDeleteOther ==
    \E c \in DOMAIN calls :
    /\ calls[c].pc = "delete_other"
    /\ settlementOther' = {}
    /\ calls' = [calls EXCEPT ![c] =
          [@ EXCEPT !.pc = AfterWrite(calls[c].netted_trip,
                                     calls[c].netted_other)]]
    /\ UNCHANGED <<splits, prepayments, settlementTrip, base>>
    /\ OtherVarsUnchanged

\* One SettlementTripCurrency.objects.create(...) of the loop over
\* netted_trip.
RecalcCreateTrip ==
    \E c \in DOMAIN calls :
    /\ calls[c].pc = "create_trip"
    /\ settlementTrip' = settlementTrip \cup {Head(calls[c].netted_trip)}
    /\ calls' = [calls EXCEPT ![c] =
          [@ EXCEPT !.netted_trip = Tail(@),
                    !.pc = AfterWrite(Tail(calls[c].netted_trip),
                                      calls[c].netted_other)]]
    /\ UNCHANGED <<splits, prepayments, settlementOther, base>>
    /\ OtherVarsUnchanged

\* One SettlementOtherCurrency.objects.create(...) of the loop over
\* netted_other.
RecalcCreateOther ==
    \E c \in DOMAIN calls :
    /\ calls[c].pc = "create_other"
    /\ settlementOther' = settlementOther \cup {Head(calls[c].netted_other)}
    /\ calls' = [calls EXCEPT ![c] =
          [@ EXCEPT !.netted_other = Tail(@),
                    !.pc = AfterWrite(<<>>, Tail(calls[c].netted_other))]]
    /\ UNCHANGED <<splits, prepayments, settlementTrip, base>>
    /\ OtherVarsUnchanged

\* trip_settlements: the query of the SettlementTripCurrency rows ...
ReadTrip ==
    /\ reader.pc = "idle"
    /\ calls # <<>>
    /\ reader' = [reader EXCEPT !.pc = "trip_read", !.trip = settlementTrip]
    /\ UNCHANGED <<expenses, splits, prepayments, settlementTrip, settlementOther,
                   nextExpenseId, last, nops, calls, base>>
    /\ OutsideUnchanged

\* ... and then the query of the SettlementOtherCurrency rows.
ReadOther ==
    /\ reader.pc = "trip_read"
    /\ reader' = [reader EXCEPT !.pc = "done", !.other = settlementOther]
    /\ UNCHANGED <<expenses, splits, prepayments, settlementTrip, settlementOther,
                   nextExpenseId, last, nops, calls, base>>
    /\ OutsideUnchanged

\* MaxCalls requests of the same trip side by side.
BeginSettleByAmount == BeginSettleByAmountOf(MaxCalls)
BeginAddPrepayment == BeginAddPrepaymentOf(MaxCalls)

NextConcurrent ==
    \/ SetupExpense
    \/ BeginSettleByAmount
    \/ BeginAddPrepayment
    \/ SettleSplit
    \/ SettleLeftover
    \/ PrepaymentQuery
    \/ PrepaymentSplit
    \/ PrepaymentSave
    \/ RecalcReadSplits
    \/ RecalcReadPrepayments
    \/ RecalcDeleteTrip
    \/ RecalcDeleteOther
    \/ RecalcCreateTrip
    \/ RecalcCreateOther

SpecConcurrent == Init /\ [][NextConcurrent]_vars

\* One request and, beside it, a reader of the trip's balances.
SettleByAmountBesideReader == BeginSettleByAmountOf(1)
AddPrepaymentBesideReader == BeginAddPrepaymentOf(1)

NextReader ==
    \/ SetupExpense
    \/ SettleByAmountBesideReader
    \/ AddPrepaymentBesideReader
    \/ SettleSplit
    \/ SettleLeftover
    \/ PrepaymentQuery
    \/ PrepaymentSplit
    \/ PrepaymentSave
    \/ RecalcReadSplits
    \/ RecalcReadPrepayments
    \/ RecalcDeleteTrip
    \/ RecalcDeleteOther
    \/ RecalcCreateTrip
    \/ RecalcCreateOther
    \/ ReadTrip
    \/ ReadOther

SpecReader == Init /\ [][NextReader]_vars

\* ------------------------------------------------- trips and participants
\* The users that call, the trips they may create, the access codes the
\* generator may draw and the Participant rows ever created.
NumUsers == 2
MaxTrips == 2
NumCodes == 2
MaxParticipantRows == 4

Users == 1..NumUsers
\* user = None and access_code = None of a Participant row.
NoUser == 0
NoCode == 0
Codes == 1..NumCodes
Titles == {"", "Alps"}
Nicknames == {"", "Ann"}

Registry == [trips |-> trips, participants |-> participants,
             nextParticipantId |-> nextParticipantId]

\* unique_join_code_when_user_null and unique_user_per_trip of Participant.
unique_join_code_when_user_null(ps) ==
    \A p, q \in {r \in ps : r.user = NoUser} :
        p.access_code = q.access_code /\ p.access_code # NoCode => p = q
unique_user_per_trip(ps) ==
    \A p, q \in {r \in ps : r.user # NoUser} :
        p.trip = q.trip /\ p.user = q.user => p = q
Constraints(ps) == unique_join_code_when_user_null(ps) /\ unique_user_per_trip(ps)

\* _generate_unique_access_code(): the codes an attempt may return, those
\* no Participant row holds.  Twenty attempts that all draw a code in use
\* raise RuntimeError, which takes a code in use to exist.
_generate_unique_access_code(reg) ==
    {code \in Codes : \A p \in reg.participants : p.access_code # code}
GenerationMayFail(reg) == \E p \in reg.participants : p.access_code # NoCode

\* Whether the database stores the nine-character code XXXX-XXXX in the
\* eight-character column access_code or raises: the one or the other,
\* by the database the deployment runs on.
CodeStored == BOOLEAN

\* _get_trip_and_verify_owner(request, trip_id): "" when the trip exists
\* and the caller owns it.
_get_trip_and_verify_owner(reg, user, trip_id) ==
    IF trip_id \notin DOMAIN reg.trips THEN "DoesNotExist"
    ELSE IF reg.trips[trip_id].trip_owner # user THEN "PermissionError"
    ELSE ""

\* create_trip(request, title, date_start, date_end, description, currency)
create_trip(reg, user, title, date_start, date_end, currency) ==
    IF title = "" \/ currency = "" \/ date_end <= date_start
    THEN [reg |-> reg, outcome |-> "fail"]
    ELSE LET trip_id == Len(reg.trips) + 1
             owner == [participant_id |-> reg.nextParticipantId, trip |-> trip_id,
                       user |-> user, nickname |-> "owner",
                       is_placeholder |-> FALSE, access_code |-> NoCode]
         IN  [reg |-> [trips |-> Append(reg.trips, [trip_id |-> trip_id,
                                                     trip_owner |-> user]),
                       participants |-> reg.participants \cup {owner},
                       nextParticipantId |-> reg.nextParticipantId + 1],
              outcome |-> "ok"]

\* add_placeholder(request, trip_id, nickname); code is what the generator
\* returned (NoCode: it raised), stored whether the row could be written.
add_placeholder(reg, user, trip_id, nickname, code, stored) ==
    IF nickname = "" THEN [reg |-> reg, outcome |-> "fail"]
    ELSE IF _get_trip_and_verify_owner(reg, user, trip_id) # ""
    THEN [reg |-> reg, outcome |-> "error"]
    ELSE IF code = NoCode \/ ~stored THEN [reg |-> reg, outcome |-> "error"]
    ELSE LET participant == [participant_id |-> reg.nextParticipantId,
                             trip |-> trip_id, user |-> NoUser,
                             nickname |-> nickname, is_placeholder |-> TRUE,
                             access_code |-> code]
         IN  [reg |-> [reg EXCEPT
                         !.participants = @ \cup {participant},
                         !.nextParticipantId = @ + 1],
              outcome |-> "ok"]

\* Participant.objects.get(participant_id=participant_id, trip=trip)
ParticipantsOf(reg, trip_id, participant_id) ==
    {p \in reg.participants : p.participant_id = participant_id /\ p.trip = trip_id}

\* detach_user with a fault: the row stays flagged as bound.
DetachedStillBound(participant, new_code) ==
    [participant EXCEPT !.user = NoUser, !.access_code = new_code]

\* The three assignments of detach_user before participant.save().
Detached(participant, new_code) ==
    [participant EXCEPT !.user = NoUser, !.is_placeholder = TRUE,
                        !.access_code = new_code]

\* detach_user(request, trip_id, participant_id)
detach_user(reg, user, trip_id, participant_id, new_code, stored) ==
    IF _get_trip_and_verify_owner(reg, user, trip_id) # ""
    THEN [reg |-> reg, outcome |-> "error"]
    ELSE IF ParticipantsOf(reg, trip_id, participant_id) = {}
    THEN [reg |-> reg, outcome |-> "error"]
    ELSE LET participant == CHOOSE p \in ParticipantsOf(reg, trip_id, participant_id) : TRUE
             saved == (reg.participants \ {participant})
                          \cup {Detached(participant, new_code)}
         IN  IF participant.user = user THEN [reg |-> reg, outcome |-> "fail"]
             ELSE IF participant.is_placeholder THEN [reg |-> reg, outcome |-> "fail"]
             ELSE IF new_code = NoCode \/ ~stored \/ ~Constraints(saved)
             THEN [reg |-> reg, outcome |-> "error"]
             ELSE [reg |-> [reg EXCEPT !.participants = saved], outcome |-> "ok"]

\* remove_placeholder(request, trip_id, participant_id)
remove_placeholder(reg, user, trip_id, participant_id) ==
    IF _get_trip_and_verify_owner(reg, user, trip_id) # ""
    THEN [reg |-> reg, outcome |-> "error"]
    ELSE IF ParticipantsOf(reg, trip_id, participant_id) = {}
    THEN [reg |-> reg, outcome |-> "error"]
    ELSE LET participant == CHOOSE p \in ParticipantsOf(reg, trip_id, participant_id) : TRUE
         IN  IF participant.user = user THEN [reg |-> reg, outcome |-> "fail"]
             ELSE IF ~participant.is_placeholder THEN [reg |-> reg, outcome |-> "fail"]
             ELSE [reg |-> [reg EXCEPT !.participants = @ \ {participant}],
                   outcome |-> "ok"]

\* join_trip(request, access_code); access_code is the code typed, after
\* strip() and upper(), NoCode for a blank one.
join_trip(reg, user, access_code) ==
    LET found == {p \in reg.participants :
                     p.access_code = access_code /\ p.is_placeholder}
    IN  IF access_code = NoCode THEN [reg |-> reg, outcome |-> "fail"]
        ELSE IF found = {} THEN [reg |-> reg, outcome |-> "fail"]
        ELSE IF Cardinality(found) > 1 THEN [reg |-> reg, outcome |-> "error"]
        ELSE LET participant == CHOOSE p \in found : TRUE
                 already_in == \E p \in reg.participants :
                                   p.trip = participant.trip /\ p.user = user
                 saved == (reg.participants \ {participant})
                              \cup {[participant EXCEPT !.user = user,
                                                        !.is_placeholder = FALSE,
                                                        !.access_code = NoCode]}
             IN  IF already_in THEN [reg |-> reg, outcome |-> "fail"]
                 ELSE IF ~Constraints(saved) THEN [reg |-> reg, outcome |-> "error"]
                 ELSE [reg |-> [reg EXCEPT !.participants = saved], outcome |-> "ok"]

\* One request of the participant service, from its first line to its
\* return or its exception.
CommitRegistry(r, op) ==
    /\ Len(r.reg.trips) <= MaxTrips
    /\ r.reg.nextParticipantId <= MaxParticipantRows + 1
    /\ trips' = r.reg.trips
    /\ participants' = r.reg.participants
    /\ nextParticipantId' = r.reg.nextParticipantId
    /\ last' = [op |-> op, outcome |-> r.outcome]
    /\ UNCHANGED <<expenses, splits, prepayments, settlementTrip, settlementOther,
                   nextExpenseId, nops, calls, base, reader, elsewhere, builder>>

\* What the generator may hand to a request: a free code, or NoCode when it
\* raised.
Generated(reg) ==
    _generate_unique_access_code(reg)
        \cup (IF GenerationMayFail(reg) THEN {NoCode} ELSE {})

CreateTrip ==
    \E user \in Users, title \in Titles, currency \in Currencies \cup {""},
       date_start, date_end \in 1..MaxTime :
        CommitRegistry(create_trip(Registry, user, title, date_start, date_end,
                                   currency), "create_trip")

AddPlaceholder ==
    \E user \in Users, trip_id \in 1..MaxTrips, nickname \in Nicknames,
       code \in Generated(Registry), stored \in CodeStored :
        CommitRegistry(add_placeholder(Registry, user, trip_id, nickname, code,
                                       stored), "add_placeholder")

DetachUser ==
    \E user \in Users, trip_id \in 1..MaxTrips,
       participant_id \in 1..MaxParticipantRows,
       new_code \in Generated(Registry), stored \in CodeStored :
        CommitRegistry(detach_user(Registry, user, trip_id, participant_id,
                                   new_code, stored), "detach_user")

RemovePlaceholder ==
    \E user \in Users, trip_id \in 1..MaxTrips,
       participant_id \in 1..MaxParticipantRows :
        CommitRegistry(remove_placeholder(Registry, user, trip_id, participant_id),
                       "remove_placeholder")

JoinTrip ==
    \E user \in Users, access_code \in Codes \cup {NoCode} :
        CommitRegistry(join_trip(Registry, user, access_code), "join_trip")

NextParticipants ==
    \/ CreateTrip
    \/ AddPlaceholder
    \/ DetachUser
    \/ RemovePlaceholder
    \/ JoinTrip

SpecParticipants == Init /\ [][NextParticipants]_vars

\* ------------------------------------------------- join requests side by side
\* A logged-in user who owns no trip.
Guest == NumUsers + 1
Joiners == Users \cup {Guest}

\* join_trip(request, access_code) is entered: the code is stripped and
\* an empty code is refused before any query.
BeginJoinTrip ==
    /\ Len(calls) < MaxCalls
    /\ \E user \in Joiners, access_code \in Codes \cup {NoCode} :
          calls' = Append(calls,
              [op |-> "join_trip", user |-> user, access_code |-> access_code,
               participant |-> <<>>,
               pc |-> IF access_code = NoCode THEN "done" ELSE "get",
               outcome |-> IF access_code = NoCode THEN "fail" ELSE ""])
    /\ UNCHANGED <<expenses, splits, prepayments, settlementTrip, settlementOther,
                   nextExpenseId, last, nops, base, reader,
                   trips, participants, nextParticipantId, elsewhere, builder>>

\* participant = Participant.objects.select_related("trip").get(
\*     access_code=access_code, is_placeholder=True)
JoinGet ==
    \E c \in DOMAIN calls :
    /\ calls[c].op = "join_trip"
    /\ calls[c].pc = "get"
    /\ LET found == {p \in participants :
                        p.access_code = calls[c].access_code /\ p.is_placeholder}
       IN  calls' = [calls EXCEPT ![c] =
              IF found = {}
              THEN [calls[c] EXCEPT !.pc = "done", !.outcome = "fail"]
              ELSE IF Cardinality(found) > 1
              THEN [calls[c] EXCEPT !.pc = "done", !.outcome = "error"]
              ELSE [calls[c] EXCEPT !.pc = "already_in",
                                    !.participant = CHOOSE p \in found : TRUE]]
    /\ UNCHANGED <<expenses, splits, prepayments, settlementTrip, settlementOther,
                   nextExpenseId, last, nops, base, reader,
                   trips, participants, nextParticipantId, elsewhere, builder>>

\* already_in = Participant.objects.filter(trip=trip, user=user).exists()
JoinAlreadyIn ==
    \E c \in DOMAIN calls :
    /\ calls[c].op = "join_trip"
    /\ calls[c].pc = "already_in"
    /\ LET already_in == \E p \in participants :
                             /\ p.trip = calls[c].participant.trip
                             /\ p.user = calls[c].user
       IN  calls' = [calls EXCEPT ![c] =
              IF already_in
              THEN [calls[c] EXCEPT !.pc = "done", !.outcome = "fail"]
              ELSE [calls[c] EXCEPT !.pc = "save"]]
    /\ UNCHANGED <<expenses, splits, prepayments, settlementTrip, settlementOther,
                   nextExpenseId, last, nops, base, reader,
                   trips, participants, nextParticipantId, elsewhere, builder>>

\* participant.save(): the request's copy of the row, with its three
\* assignments, is written over the row of the same primary key; a
\* constraint the written row breaks raises IntegrityError.
JoinSave ==
    \E c \in DOMAIN calls :
    /\ calls[c].op = "join_trip"
    /\ calls[c].pc = "save"
    /\ LET row == [calls[c].participant EXCEPT !.user = calls[c].user,
                                               !.is_placeholder = FALSE,
                                               !.access_code = NoCode]
           saved == {p \in participants : p.participant_id # row.participant_id}
                        \cup {row}
       IN  IF Constraints(saved)
           THEN /\ participants' = saved
                /\ calls' = [calls EXCEPT ![c] =
                       [calls[c] EXCEPT !.pc = "done", !.outcome = "ok"]]
           ELSE /\ participants' = participants
                /\ calls' = [calls EXCEPT ![c] =
                       [calls[c] EXCEPT !.pc = "done", !.outcome = "error"]]
    /\ UNCHANGED <<expenses, splits, prepayments, settlementTrip, settlementOther,
                   nextExpenseId, last, nops, base, reader,
                   trips, nextParticipantId, elsewhere, builder>>

\* Trips with placeholders, and MaxCalls join_trip requests side by side.
NextJoin ==
    \/ CreateTrip
    \/ AddPlaceholder
    \/ BeginJoinTrip
    \/ JoinGet
    \/ JoinAlreadyIn
    \/ JoinSave

SpecJoin == Init /\ [][NextJoin]_vars

\* ------------------------------------------------------------- two trips
\* The operations called on either of two trips, one after another.
MaxTripOps == 3

\* The trip of the variables above and another one; the participants and
\* the expenses of each are numbered within their trip.
TripIds == {"T", "U"}

\* The expenses added to them: plain payloads of one date.
TripExpenseData == {data \in PlainExpenseData : data.date = 1}

\* The tables, their rows grouped by the trip they belong to.
Tables == [trip \in TripIds |-> IF trip = "T" THEN DB ELSE elsewhere]

\* filter(trip=trip) and filter(expense__trip=trip) of the handlers'
\* queries, and get(..., trip=trip) of their lookups: the rows of the trip.
ForTrip(tables, trip) == tables[trip]

\* The two deletions of recalculate_settlements with a fault: no filter on
\* the trip.
DeleteSummariesOfAll(tables, trip) ==
    [t \in TripIds |-> [tables[t] EXCEPT !.settlementTrip = {},
                                         !.settlementOther = {}]]

\* SettlementTripCurrency.objects.filter(trip=trip).delete() and the same
\* for SettlementOtherCurrency.
DeleteSummaries(tables, trip) ==
    [t \in TripIds |-> IF t = trip
                       THEN [tables[t] EXCEPT !.settlementTrip = {},
                                              !.settlementOther = {}]
                       ELSE tables[t]]

\* The tables after a handler called for the trip has left r: its writes
\* go to the rows it queried and to rows it creates with trip=trip; the
\* summaries are deleted when it has come to recalculate_settlements.
OnTrip(tables, trip, r) ==
    [(IF r.outcome = "ok" THEN DeleteSummaries(tables, trip) ELSE tables)
        EXCEPT ![trip] = r.db]

CommitOnTrip(trip, r, op) ==
    /\ nops < MaxTripOps
    /\ Len(r.db.prepayments) <= MaxPrepayments
    /\ LET written == OnTrip(Tables, trip, r)
       IN  /\ expenses' = written["T"].expenses
           /\ splits' = written["T"].splits
           /\ prepayments' = written["T"].prepayments
           /\ settlementTrip' = written["T"].settlementTrip
           /\ settlementOther' = written["T"].settlementOther
           /\ nextExpenseId' = written["T"].nextExpenseId
           /\ elsewhere' = written["U"]
    /\ last' = [op |-> op, outcome |-> r.outcome, trip |-> trip]
    /\ nops' = nops + 1
    /\ UNCHANGED <<calls, base, reader, trips, participants, nextParticipantId,
                   builder>>

AddExpenseOnTrip ==
    /\ nops < MaxTripOps
    /\ \E trip \in TripIds :
         LET db == ForTrip(Tables, trip)
         IN  /\ db.nextExpenseId <= MaxExpenses
             /\ \E data \in TripExpenseData :
                  \E rate \in get_exchange_rate(data.currency, TripCurrency) :
                     CommitOnTrip(trip, add_expense(db, data, rate), "add_expense")

UpdateExpenseOnTrip ==
    /\ nops < MaxTripOps
    /\ \E trip \in TripIds, caller \in Participants, id \in 1..MaxExpenses :
         LET db == ForTrip(Tables, trip)
         IN  IF id \notin ExpenseIds(db) \/ ~_verify_payer_is_caller(caller, ExpenseById(db, id))
             THEN \E data \in {CHOOSE d \in TripExpenseData : TRUE} :
                     CommitOnTrip(trip, update_expense(db, caller, WithId(data, id), RateOne),
                                  "update_expense")
             ELSE \E data \in TripExpenseData :
                     \E rate \in get_exchange_rate(data.currency, TripCurrency) :
                         CommitOnTrip(trip, update_expense(db, caller, WithId(data, id), rate),
                                      "update_expense")

DeleteExpenseOnTrip ==
    /\ nops < MaxTripOps
    /\ \E trip \in TripIds, caller \in Participants, id \in 1..MaxExpenses :
         CommitOnTrip(trip, delete_expense(ForTrip(Tables, trip), caller, id),
                      "delete_expense")

AddPrepaymentOnTrip ==
    /\ nops < MaxTripOps
    /\ \E trip \in TripIds, caller \in Participants, participant_id \in Participants,
          amount \in 1..MaxAmount, currency \in Currencies,
          direction \in VALID_DIRECTIONS :
         LET db == ForTrip(Tables, trip)
         IN  IF AddPrepaymentRejection(db, caller, participant_id, amount, currency,
                                       direction) # ""
             THEN CommitOnTrip(trip, add_prepayment(db, caller, participant_id, amount,
                                                    currency, direction, <<>>),
                               "add_prepayment")
             ELSE LET db1 == AddPrepaymentCreated(db, caller, participant_id, amount,
                                                  currency, direction)
                  IN  \E order \in FifoOrders(db1, SplitCandidates(db1, Len(db1.prepayments))) :
                         CommitOnTrip(trip, add_prepayment(db, caller, participant_id,
                                                           amount, currency, direction,
                                                           order),
                                      "add_prepayment")

SettleByAmountOnTrip ==
    /\ nops < MaxTripOps
    /\ \E trip \in TripIds, caller \in Participants, from_user_id \in Participants,
          to_user_id \in Participants, amount \in 1..(MaxAmount + 1),
          currency \in Currencies, is_main_currency \in BOOLEAN :
         LET db == ForTrip(Tables, trip)
         IN  IF SettleByAmountRejection(caller, from_user_id, to_user_id, amount) # ""
             THEN CommitOnTrip(trip, settle_by_amount(db, caller, from_user_id, to_user_id,
                                                      amount, currency, is_main_currency,
                                                      <<>>, RateOne),
                               "settle_by_amount")
             ELSE \E order \in FifoOrders(db, SettleCandidates(db, from_user_id, to_user_id,
                                                               currency, is_main_currency)),
                     rate \in (IF is_main_currency THEN {RateOne}
                               ELSE get_exchange_rate(currency, TripCurrency)) :
                     CommitOnTrip(trip, settle_by_amount(db, caller, from_user_id,
                                                         to_user_id, amount, currency,
                                                         is_main_currency, order, rate),
                                  "settle_by_amount")

SettleByCostsOnTrip ==
    /\ nops < MaxTripOps
    /\ \E trip \in TripIds, caller \in Participants, items \in ItemLists :
         CommitOnTrip(trip, settle_by_costs(ForTrip(Tables, trip), caller, items),
                      "settle_by_costs")

NextTrips ==
    \/ AddExpenseOnTrip
    \/ UpdateExpenseOnTrip
    \/ DeleteExpenseOnTrip
    \/ AddPrepaymentOnTrip
    \/ SettleByAmountOnTrip
    \/ SettleByCostsOnTrip

SpecTrips == Init /\ [][NextTrips]_vars

\* ---------------------------------------------------- the split builder alone
MaxEntries == 3
MaxBuilderRate == 3

RECURSIVE SplitValuesOfLen(_)
SplitValuesOfLen(n) ==
    IF n = 0 THEN {<<>>}
    ELSE {Append(l, money) : l \in SplitValuesOfLen(n - 1), money \in Money}

\* The split_value lists of a share: up to MaxEntries money entries.
SplitValues == UNION {SplitValuesOfLen(n) : n \in 0..MaxEntries}

\* The Split Builder is about to be called for one share of an expense
\* whose rate was captured.
SplitBuilderInit ==
    /\ expenses = <<>>
    /\ splits = <<>>
    /\ prepayments = <<>>
    /\ settlementTrip = {}
    /\ settlementOther = {}
    /\ nextExpenseId = 1
    /\ last = [op |-> "none", outcome |-> "ok"]
    /\ nops = 0
    /\ calls = <<>>
    /\ base = DB
    /\ reader = [pc |-> "idle", trip |-> {}, other |-> {}]
    /\ trips = <<>>
    /\ participants = {}
    /\ nextParticipantId = 1
    /\ elsewhere = DB
    /\ builder \in [pc : {"called"}, split_value : SplitValues,
                    rate : RateOne..MaxBuilderRate]

\* split_amount_cost, split_amount_trip = _compute_split_amounts(share,
\* trip_currency, rate)
ComputeSplitAmounts ==
    /\ builder.pc = "called"
    /\ LET amt == _compute_split_amounts(builder.split_value, TripCurrency,
                                         builder.rate)
       IN  builder' = [pc |-> "returned", split_value |-> builder.split_value,
                       rate |-> builder.rate,
                       split_amount_cost |-> amt.cost,
                       split_amount_trip |-> amt.trip]
    /\ UNCHANGED <<expenses, splits, prepayments, settlementTrip, settlementOther,
                   nextExpenseId, last, nops, calls, base, reader,
                   trips, participants, nextParticipantId, elsewhere>>

NextSplitBuilder == ComputeSplitAmounts

SpecSplitBuilder == SplitBuilderInit /\ [][NextSplitBuilder]_vars

\* ------------------------------------------------------------ properties
PayerOf(db, k) == ExpenseById(db, db.splits[k].expense).payer
CurrencyOf(db, k) == ExpenseById(db, db.splits[k].expense).expense_currency
CreatedAt(db, k) == ExpenseById(db, db.splits[k].expense).created_at

\* C1: in every reachable state every Split has 0 <= left_cost <=
\* amount_cost and 0 <= left_trip <= amount_trip: no decrement leaves a
\* negative remainder.
C1_RemaindersWithinAmounts ==
    \A k \in DOMAIN splits :
        /\ ZERO <= splits[k].left_cost
        /\ splits[k].left_cost <= splits[k].amount_cost
        /\ ZERO <= splits[k].left_trip
        /\ splits[k].left_trip <= splits[k].amount_trip

\* The Splits of the Expense created last.
NewestSplits == {k \in DOMAIN splits : splits[k].expense = nextExpenseId - 1}

\* C2: in every reachable state the Split of an Expense's payer has both
\* remainders 0 and is_settlement true, whatever share was supplied; and a
\* Split add_expense creates for anyone else starts with its remainders
\* equal to its amounts and is_settlement false (seen right after an
\* add_expense that found no Prepayment to apply).
C2_SelfSplitSettled ==
    /\ \A k \in DOMAIN splits :
          splits[k].participant = PayerOf(DB, k) =>
              /\ splits[k].left_cost = ZERO
              /\ splits[k].left_trip = ZERO
              /\ splits[k].is_settlement
    /\ (last.op = "add_expense" /\ prepayments = <<>>) =>
          \A k \in NewestSplits :
              splits[k].participant # PayerOf(DB, k) =>
                  /\ splits[k].left_cost = splits[k].amount_cost
                  /\ splits[k].left_trip = splits[k].amount_trip
                  /\ ~splits[k].is_settlement

C2_PayerAndDebtorCreated ==
    /\ last = [op |-> "add_expense", outcome |-> "ok"]
    /\ prepayments = <<>>
    /\ \E k1, k2 \in NewestSplits :
          /\ splits[k1].participant = PayerOf(DB, k1)
          /\ splits[k1].amount_trip > ZERO
          /\ splits[k1].is_settlement
          /\ splits[k2].participant # PayerOf(DB, k2)
          /\ splits[k2].left_trip = splits[k2].amount_trip
          /\ splits[k2].amount_trip > ZERO

\* The trip-currency summary edge from a to b, as stored.
StoredTrip(a, b) ==
    LET R == {row \in settlementTrip :
                 row.from_participant = a /\ row.to_participant = b}
    IN  SumOver(R, [row \in R |-> row.amount])

\* What a still owes b on unsettled Splits, in trip currency.
OwedTrip(a, b) ==
    LET S == {k \in DOMAIN splits :
                 /\ ~splits[k].is_settlement
                 /\ splits[k].participant = a
                 /\ PayerOf(DB, k) = b}
    IN  SumOver(S, [k \in S |-> splits[k].left_trip])

\* The unspent Prepayments from a to b, converted to trip currency.
PrepaidTrip(a, b) ==
    LET P == {j \in DOMAIN prepayments :
                 /\ prepayments[j].amount_left > ZERO
                 /\ prepayments[j].from_participant = a
                 /\ prepayments[j].to_participant = b}
    IN  SumOver(P, [j \in P |-> TimesRate(prepayments[j].amount_left,
                                          prepayments[j].rate)])

\* C3: conservation: for every pair (a, b) the stored net trip-currency
\* balance, edge a -> b minus edge b -> a, equals what a owes b on unsettled
\* Splits minus what b owes a, minus the unspent Prepayments from a to b,
\* plus those from b to a.
C3_Conservation ==
    \A a, b \in Participants :
        a # b =>
            StoredTrip(a, b) - StoredTrip(b, a)
                = OwedTrip(a, b) - OwedTrip(b, a)
                  - PrepaidTrip(a, b) + PrepaidTrip(b, a)

\* C4: recalculate_settlements is idempotent: a second call right after the
\* first leaves the same rows in both summary tables, in whatever order
\* either call walks its dicts, and no call changes a Split, a Prepayment
\* or an Expense.
C4_AggregatorIdempotent ==
    LET once == recalculate_settlements(DB)
        twice == recalculate_settlements(once)
    IN  /\ twice = once
        /\ once.splits = splits
        /\ once.prepayments = prepayments
        /\ once.expenses = expenses
        /\ \A o \in Orders(TripKeys(DB)) :
              NettedTrip(DB, o) = once.settlementTrip
        /\ \A o \in Orders(OtherKeys(DB)) :
              NettedOther(DB, o) = once.settlementOther

C4_RebuiltBothWays ==
    /\ last.outcome = "ok"
    /\ Cardinality(TripKeys(DB)) = 2
    /\ Cardinality(OtherKeys(DB)) >= 2
    /\ settlementTrip # {}
    /\ settlementOther # {}
    /\ settlementTrip = recalculate_settlements(DB).settlementTrip

\* C5: netting: after recalculate_settlements every pair of participants
\* has at most one trip-currency row, and at most one row per currency in
\* the other table; the row's amount is positive, equals the difference of
\* the two gross debts and points from the side that owes more; equal gross
\* debts leave no row; no row goes from a participant to itself.
C5_Netting ==
    LET r == recalculate_settlements(DB)
    IN  /\ \A row \in r.settlementTrip \cup r.settlementOther :
              /\ row.from_participant # row.to_participant
              /\ row.amount > ZERO
        /\ \A a, b \in Participants :
              a # b =>
                LET d == TripDebt(DB, a, b) - TripDebt(DB, b, a)
                    between == {row \in r.settlementTrip :
                                   {row.from_participant, row.to_participant} = {a, b}}
                IN  /\ d > ZERO =>
                          between = {[from_participant |-> a, to_participant |-> b,
                                      amount |-> d]}
                    /\ d = ZERO => between = {}
        /\ \A a, b \in Participants, curr \in Currencies :
              a # b =>
                LET d == OtherDebt(DB, a, b, curr) - OtherDebt(DB, b, a, curr)
                    between == {row \in r.settlementOther :
                                   /\ {row.from_participant, row.to_participant} = {a, b}
                                   /\ row.currency = curr}
                IN  /\ d > ZERO =>
                          between = {[from_participant |-> a, to_participant |-> b,
                                      currency |-> curr, amount |-> d]}
                    /\ d = ZERO => between = {}

C5_OpposingDebtsNetted ==
    /\ last.outcome = "ok"
    /\ \E a, b \in Participants :
          /\ TripDebt(DB, b, a) > ZERO
          /\ TripDebt(DB, a, b) > TripDebt(DB, b, a)
          /\ settlementTrip = {[from_participant |-> a, to_participant |-> b,
                                amount |-> TripDebt(DB, a, b) - TripDebt(DB, b, a)]}

\* C6: FIFO over Prepayments: with two unspent trip-currency Prepayments
\* from a to b, p1 older than p2, and a new Split in which a owes b,
\* apply_prepayments_to_split takes from p2 only if it leaves p1 at 0, and
\* it first takes min(p1.amount_left, left_trip) from p1 and from the Split.
C6_PrepaymentsFifo ==
    \A p1, p2 \in DOMAIN prepayments :
        (/\ p1 < p2
         /\ prepayments[p1].currency = TripCurrency
         /\ prepayments[p2].currency = TripCurrency
         /\ prepayments[p1].amount_left > ZERO
         /\ prepayments[p2].amount_left > ZERO
         /\ prepayments[p1].from_participant = prepayments[p2].from_participant
         /\ prepayments[p1].to_participant = prepayments[p2].to_participant
         /\ \A j \in 1..(p1 - 1) :
               \/ prepayments[j].amount_left <= ZERO
               \/ prepayments[j].from_participant # prepayments[p1].from_participant
               \/ prepayments[j].to_participant # prepayments[p1].to_participant) =>
        \A data \in PlainExpenseData :
            (/\ data.payer_id = prepayments[p1].to_participant
             /\ data.shared_with[1].participant_id = prepayments[p1].from_participant) =>
            \A rate \in get_exchange_rate(data.currency, TripCurrency) :
                LET created == AddExpenseCreated(DB, data, rate).db
                    k == Len(created.splits)
                    S == created.splits[k]
                    after == apply_prepayments_to_split(created, k)
                    m == Min(prepayments[p1].amount_left, S.left_trip)
                IN  /\ after.prepayments[p2].amount_left < prepayments[p2].amount_left
                          => after.prepayments[p1].amount_left = ZERO
                    /\ after.prepayments[p1].amount_left
                          = prepayments[p1].amount_left - m
                    /\ after.splits[k].left_trip
                          = S.left_trip - m
                            - (prepayments[p2].amount_left
                               - after.prepayments[p2].amount_left)
                             - SumOver(DOMAIN prepayments \ {p1, p2},
                                  [j \in DOMAIN prepayments \ {p1, p2} |->
                                      TimesRate(prepayments[j].amount_left
                                                - after.prepayments[j].amount_left, rate)])
                    /\ after.splits[k].left_cost
                          <= Max(ZERO, S.left_cost - DivRate(m, rate))

C6_OlderSpentFirst ==
    /\ last = [op |-> "add_expense", outcome |-> "ok"]
    /\ Len(prepayments) = 2
    /\ prepayments[1].currency = TripCurrency
    /\ prepayments[2].currency = TripCurrency
    /\ prepayments[1].from_participant = prepayments[2].from_participant
    /\ prepayments[1].to_participant = prepayments[2].to_participant
    /\ prepayments[1].amount_left = ZERO
    /\ prepayments[2].amount_left > ZERO
    /\ prepayments[2].amount_left < prepayments[2].amount
    /\ \E k \in NewestSplits :
          /\ splits[k].participant = prepayments[1].from_participant
          /\ PayerOf(DB, k) = prepayments[1].to_participant
          /\ splits[k].amount_trip = prepayments[1].amount
                + (prepayments[2].amount - prepayments[2].amount_left)
          /\ splits[k].left_trip = ZERO

\* The Split has nothing left in the unit a Prepayment of this currency
\* pays in.
Drained(split, currency) ==
    IF currency = TripCurrency THEN split.left_trip <= ZERO
    ELSE split.left_cost <= ZERO

C8_CrossSettled ==
    last = [op |-> "add_expense", outcome |-> "ok"] =>
        \A k \in NewestSplits, o \in DOMAIN splits \ NewestSplits :
            (/\ splits[k].participant # PayerOf(DB, k)
             /\ splits[o].participant = PayerOf(DB, k)
             /\ PayerOf(DB, o) = splits[k].participant
             /\ CurrencyOf(DB, o) = CurrencyOf(DB, k)) =>
                ~(/\ splits[k].left_trip > ZERO
                  /\ splits[k].left_cost > ZERO
                  /\ splits[o].left_trip > ZERO
                  /\ splits[o].left_cost > ZERO
                  /\ ~splits[o].is_settlement)

\* The remainder of a Split in the unit settle_by_amount works in.
LeftIn(split, is_main_currency) ==
    IF is_main_currency THEN split.left_trip ELSE split.left_cost

\* C9: a successful settle_by_amount of X loses nothing: X is the sum of
\* what it took off the candidate Splits (in trip currency when
\* is_main_currency, else in cost currency) plus the amount of the
\* Prepayment from -> to it created; it creates that Prepayment exactly
\* when something is left over, with amount = amount_left = the leftover.
C9_OverpaymentKept ==
    Len(prepayments) < MaxPrepayments =>
    \A caller, from_user_id, to_user_id \in Participants,
       amount \in 1..(MaxAmount + 1), currency \in Currencies,
       is_main_currency \in BOOLEAN :
        SettleByAmountRejection(caller, from_user_id, to_user_id, amount) = "" =>
        LET cand == SettleCandidates(DB, from_user_id, to_user_id, currency,
                                     is_main_currency)
        IN  \A order \in FifoOrders(DB, cand),
               rate \in (IF is_main_currency THEN {RateOne}
                         ELSE get_exchange_rate(currency, TripCurrency)) :
                LET written == SettleByAmountWritten(DB, from_user_id, to_user_id,
                                    amount, currency, is_main_currency, order, rate)
                    taken == [k \in cand |->
                                 LeftIn(splits[k], is_main_currency)
                                 - LeftIn(written.splits[k], is_main_currency)]
                    leftover == amount - SumOver(cand, taken)
                IN  /\ \A k \in cand : taken[k] >= ZERO
                    /\ \A k \in DOMAIN splits \ cand : written.splits[k] = splits[k]
                    /\ leftover >= ZERO
                    /\ IF leftover > ZERO
                       THEN written.prepayments =
                              Append(prepayments,
                                     [from_participant |-> from_user_id,
                                      to_participant |-> to_user_id,
                                      amount |-> leftover,
                                      amount_left |-> leftover,
                                      currency |-> IF is_main_currency
                                                   THEN TripCurrency ELSE currency,
                                      rate |-> rate])
                       ELSE written.prepayments = prepayments

C9_LeftoverBecamePrepayment ==
    /\ last = [op |-> "settle_by_amount", outcome |-> "ok"]
    /\ Len(splits) = 1
    /\ splits[1].amount_trip = MaxAmount
    /\ splits[1].left_trip = ZERO
    /\ splits[1].is_settlement
    /\ prepayments = <<[from_participant |-> splits[1].participant,
                        to_participant |-> PayerOf(DB, 1),
                        amount |-> 1, amount_left |-> 1,
                        currency |-> TripCurrency, rate |-> RateOne]>>
    /\ settlementTrip = {[from_participant |-> PayerOf(DB, 1),
                          to_participant |-> splits[1].participant,
                          amount |-> 1]}

\* C10: settle_by_costs fails atomically: when the call fails, no Split
\* named by an item of the batch has changed.
C10_FailsAtomically ==
    \A caller \in Participants, items \in ItemLists :
        LET r == settle_by_costs(DB, caller, items)
        IN  r.outcome = "fail" =>
                \A n \in DOMAIN items, k \in DOMAIN splits :
                    (/\ splits[k].expense = items[n].expense_id
                     /\ splits[k].participant = items[n].participant_id)
                        => r.db.splits[k] = splits[k]

\* The payload names a participant the trip does not have, as its payer or
\* in its share list.
NamesUnknownParticipant(data) ==
    \/ data.payer_id \notin Participants
    \/ \E i \in DOMAIN data.shared_with :
          data.shared_with[i].participant_id \notin Participants

\* C11: add_expense is all-or-nothing: called with a payload whose payer or
\* one of whose shares names a participant the trip does not have, it ends
\* with an error and has persisted no Expense and no Split.
C11_AddExpenseAllOrNothing ==
    \A data \in ExpenseData :
        NamesUnknownParticipant(data) =>
            \A rate \in get_exchange_rate(data.currency, TripCurrency) :
                LET r == add_expense(DB, data, rate)
                IN  /\ r.outcome = "error"
                    /\ r.db.expenses = expenses
                    /\ r.db.splits = splits

\* C12: update_expense validates before it writes: called by the payer with
\* a payload whose new payer or one of whose shares names a participant the
\* trip does not have, it fails and leaves the Expense, its Splits, the
\* Prepayments and the summaries as they were.
C12_UpdateValidatesFirst ==
    \A id \in ExpenseIds(DB), data \in ExpenseData :
        NamesUnknownParticipant(data) =>
            \A rate \in get_exchange_rate(data.currency, TripCurrency) :
                LET r == update_expense(DB, ExpenseById(DB, id).payer,
                                        WithId(data, id), rate)
                IN  /\ r.outcome # "ok"
                    /\ r.db = DB

\* The two sequences hold the same rows, each as often as the other.
SameRows(s, t) ==
    /\ Len(s) = Len(t)
    /\ \A i \in DOMAIN s :
          Cardinality({n \in DOMAIN s : s[n] = s[i]})
              = Cardinality({n \in DOMAIN t : t[n] = s[i]})

\* The Splits and Prepayments the request leaves when it runs alone on db:
\* one database for every order in which its query may return equal-dated
\* Splits and for every rate the provider may answer.
Alone(db, call) ==
    IF call.op = "settle_by_amount"
    THEN {SettleByAmountWritten(db, call.from, call.to, call.amount, call.currency,
                                call.is_main_currency, order, rate) :
            order \in FifoOrders(db, SettleCandidates(db, call.from, call.to,
                                     call.currency, call.is_main_currency)),
            rate \in (IF call.is_main_currency THEN {RateOne}
                      ELSE get_exchange_rate(call.currency, TripCurrency))}
    ELSE LET db1 == AddPrepaymentCreated(db, call.from, call.to, call.amount,
                                         call.currency, "FROM_ME")
             j == Len(db1.prepayments)
         IN  {apply_prepayment_to_splits(db1, j, order) :
                order \in FifoOrders(db1, SplitCandidates(db1, j))}

AllReturned == \A c \in DOMAIN calls : calls[c].pc = "done"

\* C13: per-trip serialization: when two mutations of the same trip that
\* ran side by side have both returned, the Splits and the Prepayments are
\* those that one of the two serial orders of the two mutations leaves.
C13_Serialized ==
    (Len(calls) = MaxCalls /\ AllReturned) =>
        \E a, b \in DOMAIN calls :
            /\ a # b
            /\ \E d1 \in Alone(base, calls[a]) :
                  \E d2 \in Alone(d1, calls[b]) :
                      /\ splits = d2.splits
                      /\ SameRows(prepayments, d2.prepayments)

\* C14: the summary is never seen partially updated: a trip_settlements
\* query that ran beside one mutation of the trip has read either the rows
\* of before the mutation or the rows the mutation left, in both tables.
C14_ReaderSeesWholeSummary ==
    (Len(calls) = 1 /\ AllReturned /\ reader.pc = "done") =>
        \/ /\ reader.trip = base.settlementTrip
           /\ reader.other = base.settlementOther
        \/ /\ reader.trip = settlementTrip
           /\ reader.other = settlementOther

\* What has been paid on the Split, in the expense's currency.
SettledCost(split) == split.amount_cost - split.left_cost

\* C15: delete_expense preserves paid-in money: for every Split of the
\* deleted Expense that is not the payer's own and has a positive settled
\* portion, fully settled Splits included, the call creates a Prepayment
\* from the Split's participant to the payer with amount = amount_left =
\* the settled portion, in the expense's currency.
C15_DeleteKeepsPaidIn ==
    \A id \in ExpenseIds(DB) :
        LET expense == ExpenseById(DB, id)
            r == delete_expense(DB, expense.payer, id)
        IN  \A k \in SplitsOf(DB, id) :
                (/\ splits[k].participant # expense.payer
                 /\ SettledCost(splits[k]) > ZERO) =>
                    \E j \in DOMAIN r.db.prepayments \ DOMAIN prepayments :
                        /\ r.db.prepayments[j].from_participant = splits[k].participant
                        /\ r.db.prepayments[j].to_participant = expense.payer
                        /\ r.db.prepayments[j].amount = SettledCost(splits[k])
                        /\ r.db.prepayments[j].amount_left = SettledCost(splits[k])
                        /\ r.db.prepayments[j].currency = expense.expense_currency

\* C16: when update_expense changes the payer, for every participant with a
\* positive settled amount on an old Split owed to the old payer the call
\* creates a Prepayment of that amount from the participant to the old
\* payer.
C16_PayerChangeRefundsOldPayer ==
    \A id \in ExpenseIds(DB), data \in PlainExpenseData :
        LET old == ExpenseById(DB, id)
        IN  data.payer_id # old.payer =>
            \A rate \in get_exchange_rate(data.currency, TripCurrency) :
                LET r == update_expense(DB, old.payer, WithId(data, id), rate)
                IN  \A k \in SplitsOf(DB, id) :
                        (/\ splits[k].participant # old.payer
                         /\ SettledCost(splits[k]) > ZERO) =>
                            \E j \in DOMAIN r.db.prepayments \ DOMAIN prepayments :
                                /\ r.db.prepayments[j].from_participant
                                      = splits[k].participant
                                /\ r.db.prepayments[j].to_participant = old.payer
                                /\ r.db.prepayments[j].amount = SettledCost(splits[k])

\* The Prepayments of after that were not there before (the table only
\* grows at its end).
CreatedPrepayments(before, after) ==
    {j \in DOMAIN after.prepayments : j > Len(before.prepayments)}

\* C17: overpayment safety on edit: when update_expense gives a participant
\* other than the payer a share below what the participant had settled on
\* the old Split, the call creates exactly one Prepayment, from the
\* participant to the payer, with amount = amount_left = settled - new
\* share, in the expense's currency, and the participant's new Split has
\* both remainders 0.
C17_OverpaymentOnEdit ==
    \A id \in ExpenseIds(DB), data \in PlainExpenseData :
        \A rate \in get_exchange_rate(data.currency, TripCurrency) :
            LET old == ExpenseById(DB, id)
                pid == data.shared_with[1].participant_id
                new_cost == _compute_split_amounts(data.shared_with[1].split_value,
                                                   TripCurrency, rate).cost
                settled == OldSettledCost(splits, id, [p \in Participants |-> ZERO])[pid]
                r == update_expense(DB, old.payer, WithId(data, id), rate)
                created == CreatedPrepayments(DB, r.db)
            IN  (pid # data.payer_id /\ settled > new_cost) =>
                    /\ r.outcome = "ok"
                    /\ Cardinality(created) = 1
                    /\ \A j \in created :
                          /\ r.db.prepayments[j].from_participant = pid
                          /\ r.db.prepayments[j].to_participant = data.payer_id
                          /\ r.db.prepayments[j].amount = settled - new_cost
                          /\ r.db.prepayments[j].amount_left = settled - new_cost
                          /\ r.db.prepayments[j].currency = data.currency
                    /\ \A k \in SplitsOf(r.db, id) :
                          /\ r.db.splits[k].participant = pid
                          /\ r.db.splits[k].amount_cost = new_cost
                          /\ r.db.splits[k].left_cost = ZERO
                          /\ r.db.splits[k].left_trip = ZERO
                    /\ SplitsOf(r.db, id) # {}

C17_OverpaidShareRefunded ==
    /\ last = [op |-> "update_expense", outcome |-> "ok"]
    /\ Len(expenses) = 1
    /\ Len(splits) = 1
    /\ splits[1].participant # PayerOf(DB, 1)
    /\ splits[1].amount_cost = 1
    /\ splits[1].left_cost = ZERO
    /\ splits[1].left_trip = ZERO
    /\ prepayments = <<[from_participant |-> splits[1].participant,
                        to_participant |-> PayerOf(DB, 1),
                        amount |-> 1, amount_left |-> 1,
                        currency |-> CurrencyOf(DB, 1), rate |-> RateOne]>>

\* C18: the Prepayment lifecycle: every step of every operation keeps each
\* existing Prepayment (none is deleted), keeps its amount, its giver, its
\* receiver and its currency, does not raise its amount_left, and leaves
\* every Prepayment with 0 <= amount_left <= amount.
C18_PrepaymentLifecycle ==
    [][/\ Len(prepayments') >= Len(prepayments)
       /\ \A j \in DOMAIN prepayments :
             /\ prepayments'[j].amount = prepayments[j].amount
             /\ prepayments'[j].from_participant = prepayments[j].from_participant
             /\ prepayments'[j].to_participant = prepayments[j].to_participant
             /\ prepayments'[j].currency = prepayments[j].currency
             /\ prepayments'[j].amount_left <= prepayments[j].amount_left
       /\ \A j \in DOMAIN prepayments' :
             /\ ZERO <= prepayments'[j].amount_left
             /\ prepayments'[j].amount_left <= prepayments'[j].amount]_vars

C18_PrepaymentPartlySpent ==
    /\ last = [op |-> "add_expense", outcome |-> "ok"]
    /\ Len(prepayments) = 2
    /\ prepayments[1].amount_left = ZERO
    /\ prepayments[1].amount > ZERO
    /\ prepayments[2].amount_left > ZERO
    /\ prepayments[2].amount_left < prepayments[2].amount
    /\ prepayments[1].currency # prepayments[2].currency

\* C19: is_settlement agrees with the remainders: in every state an
\* operation has left when it completed, every Split has is_settlement true
\* exactly when left_trip <= 0 and left_cost <= 0.
C19_IsSettlementConsistent ==
    last.outcome = "ok" =>
        \A k \in DOMAIN splits :
            splits[k].is_settlement
                <=> (splits[k].left_trip <= ZERO /\ splits[k].left_cost <= ZERO)

\* C20: update_expense and delete_expense called by a user who is not the
\* expense's payer return a failure and change nothing: the Expense, its
\* Splits, the Prepayments and the summaries stay as they were.
C20_NonPayerRefused ==
    \A id \in ExpenseIds(DB), caller \in ParticipantIds :
        caller # ExpenseById(DB, id).payer =>
            /\ delete_expense(DB, caller, id) = [db |-> DB, outcome |-> "fail"]
            /\ \A data \in PlainExpenseData :
                  \A rate \in get_exchange_rate(data.currency, TripCurrency) :
                      update_expense(DB, caller, WithId(data, id), rate)
                          = [db |-> DB, outcome |-> "fail"]

C20_RefusedWithDebts ==
    /\ last.op \in {"update_expense", "delete_expense"}
    /\ last.outcome = "fail"
    /\ Len(expenses) = 1
    /\ prepayments # <<>>
    /\ settlementTrip # {}
    /\ \E k \in DOMAIN splits :
          /\ splits[k].participant # PayerOf(DB, k)
          /\ splits[k].left_trip > ZERO
          /\ splits[k].left_trip < splits[k].amount_trip

\* C21: validation failures mutate nothing.  add_prepayment called with an
\* amount <= 0, a blank currency, an invalid direction, by a caller who is
\* no participant, for a participant the trip does not have, for the caller
\* itself, or in a currency that is neither the trip's nor one of its
\* expenses', and settle_by_amount called with an amount <= 0, a from or to
\* participant the trip does not have, from = to, or by a caller who is
\* neither of the two, return a failure and leave every Prepayment, Split
\* and summary row as it was.
C21_ValidationFailuresMutateNothing ==
    /\ \A caller, participant_id \in ParticipantIds, amount \in 0..MaxAmount,
          currency \in Currencies \cup {""}, direction \in Directions :
          (\/ amount <= ZERO
           \/ currency = ""
           \/ direction \notin VALID_DIRECTIONS
           \/ caller \notin Participants
           \/ participant_id \notin Participants
           \/ caller = participant_id
           \/ /\ currency # TripCurrency
              /\ \A i \in DOMAIN expenses : expenses[i].expense_currency # currency) =>
              add_prepayment(DB, caller, participant_id, amount, currency,
                             direction, <<>>) = [db |-> DB, outcome |-> "fail"]
    /\ \A caller, from_user_id, to_user_id \in ParticipantIds,
          amount \in 0..(MaxAmount + 1), currency \in Currencies,
          is_main_currency \in BOOLEAN :
          (\/ amount <= ZERO
           \/ from_user_id \notin Participants
           \/ to_user_id \notin Participants
           \/ from_user_id = to_user_id
           \/ caller \notin {from_user_id, to_user_id}) =>
              settle_by_amount(DB, caller, from_user_id, to_user_id, amount, currency,
                               is_main_currency, <<>>, RateOne)
                  = [db |-> DB, outcome |-> "fail"]

C21_RefusedOnTripWithDebts ==
    /\ last.op \in {"add_prepayment", "settle_by_amount"}
    /\ last.outcome = "fail"
    /\ Len(prepayments) = 1
    /\ prepayments[1].amount_left > ZERO
    /\ settlementTrip # {}
    /\ \E k \in DOMAIN splits : splits[k].left_trip > ZERO

\* The Prepayment may pay into the Split of this participant on this
\* expense: it goes from the participant to the payer and is in the trip
\* currency or in the expense's currency.
Eligible(prepayment, participant, expense) ==
    /\ prepayment.from_participant = participant
    /\ prepayment.to_participant = expense.payer
    /\ \/ prepayment.currency = TripCurrency
       \/ prepayment.currency = expense.expense_currency

\* C22: Prepayment currency eligibility.  When add_expense reconciles its
\* new Split, a Prepayment that is not eligible (other parties, or a
\* currency that is neither the trip's nor the expense's) keeps its
\* amount_left, and the oldest unspent eligible Prepayment is drawn on,
\* whatever the expense's currency when the Prepayment is in trip currency.
\* When add_prepayment reconciles its new Prepayment, only Splits it is
\* eligible for change, and it is drawn on whenever such an unsettled Split
\* with a positive trip remainder exists.
C22_CurrencyEligibility ==
    /\ \A data \in PlainExpenseData :
          \A rate \in get_exchange_rate(data.currency, TripCurrency) :
              LET created == AddExpenseCreated(DB, data, rate).db
                  k == Len(created.splits)
                  S == created.splits[k]
                  expense == ExpenseById(created, S.expense)
                  after == apply_prepayments_to_split(created, k)
                  unspent == {j \in DOMAIN prepayments :
                                 /\ prepayments[j].amount_left > ZERO
                                 /\ Eligible(prepayments[j], S.participant, expense)}
              IN  /\ \A j \in DOMAIN prepayments :
                        ~Eligible(prepayments[j], S.participant, expense)
                            => after.prepayments[j] = prepayments[j]
                  /\ \A j \in unspent :
                        (S.left_trip > ZERO /\ \A i \in unspent : j <= i)
                            => after.prepayments[j].amount_left
                                  < prepayments[j].amount_left
    /\ Len(prepayments) < MaxPrepayments =>
          \A caller, participant_id \in Participants, amount \in 1..MaxAmount,
             currency \in Currencies, direction \in VALID_DIRECTIONS :
              AddPrepaymentRejection(DB, caller, participant_id, amount, currency,
                                     direction) = "" =>
              LET db1 == AddPrepaymentCreated(DB, caller, participant_id, amount,
                                              currency, direction)
                  j == Len(db1.prepayments)
                  open == {k \in DOMAIN splits :
                              /\ Eligible(db1.prepayments[j], splits[k].participant,
                                          ExpenseById(DB, splits[k].expense))
                              /\ ~splits[k].is_settlement
                              /\ splits[k].left_trip > ZERO}
              IN  \A order \in FifoOrders(db1, SplitCandidates(db1, j)) :
                      LET after == apply_prepayment_to_splits(db1, j, order)
                      IN  /\ \A k \in DOMAIN splits :
                                after.splits[k] # splits[k] => k \in open
                          /\ open # {} =>
                                after.prepayments[j].amount_left < amount

C22_TripPrepaymentPaidForeignExpense ==
    /\ last = [op |-> "add_expense", outcome |-> "ok"]
    /\ Len(expenses) = 1
    /\ expenses[1].expense_currency = ForeignCurrency
    /\ Len(prepayments) = 1
    /\ prepayments[1].currency = TripCurrency
    /\ prepayments[1].amount_left < prepayments[1].amount
    /\ \E k \in DOMAIN splits :
          /\ splits[k].participant = prepayments[1].from_participant
          /\ PayerOf(DB, k) = prepayments[1].to_participant
          /\ splits[k].left_trip < splits[k].amount_trip

C24_ParticipantInvariant ==
    /\ \A p \in participants :
          \/ p.is_placeholder /\ p.user = NoUser /\ p.access_code # NoCode
          \/ ~p.is_placeholder /\ p.user # NoUser /\ p.access_code = NoCode
    /\ \A p, q \in participants :
          (p.user # NoUser /\ p.user = q.user /\ p.trip = q.trip) => p = q

C24_DetachedAfterJoining ==
    /\ last = [op |-> "detach_user", outcome |-> "ok"]
    /\ \E p, q \in participants :
          /\ p.trip = q.trip
          /\ p.is_placeholder /\ p.access_code # NoCode
          /\ ~q.is_placeholder /\ q.user # NoUser
    /\ \E p, q \in participants : p.trip # q.trip /\ p.user = q.user /\ p.user # NoUser

NewestDebtors == {k \in NewestSplits : splits[k].participant # PayerOf(DB, k)}

\* The last call was a successful add_expense on a trip without
\* Prepayments.
AddedWithoutPrepayments ==
    /\ last = [op |-> "add_expense", outcome |-> "ok"]
    /\ NewestSplits # {}
    /\ prepayments = <<>>

\* The shares of the newest expense name every participant at most once
\* and give every non-payer a positive amount.
OneShareEach ==
    /\ \A k1, k2 \in NewestSplits : splits[k1].participant = splits[k2].participant => k1 = k2
    /\ \A k \in NewestDebtors : splits[k].amount_trip > ZERO

C27_SettleByAmountFifo ==
    Len(prepayments) < MaxPrepayments =>
    \A caller, from_user_id, to_user_id \in Participants,
       amount \in 1..(MaxAmount + 1), currency \in Currencies,
       is_main_currency \in BOOLEAN :
        SettleByAmountRejection(caller, from_user_id, to_user_id, amount) = "" =>
        LET cand == {k \in DOMAIN splits :
                        /\ splits[k].participant = from_user_id
                        /\ PayerOf(DB, k) = to_user_id
                        /\ ~splits[k].is_settlement
                        /\ (~is_main_currency => CurrencyOf(DB, k) = currency)}
        IN  \A order \in FifoOrders(DB, SettleCandidates(DB, from_user_id, to_user_id,
                                                        currency, is_main_currency)),
               rate \in (IF is_main_currency THEN {RateOne}
                         ELSE get_exchange_rate(currency, TripCurrency)) :
                LET written == SettleByAmountWritten(DB, from_user_id, to_user_id,
                                    amount, currency, is_main_currency, order, rate)
                IN  /\ \A k1, k2 \in cand :
                          (/\ CreatedAt(DB, k1) < CreatedAt(DB, k2)
                           /\ written.splits[k2] # splits[k2])
                              => LeftIn(written.splits[k1], is_main_currency) <= ZERO
                    /\ \A k \in DOMAIN splits \ cand : written.splits[k] = splits[k]

C27_OlderExpenseSettledFirst ==
    /\ last = [op |-> "settle_by_amount", outcome |-> "ok"]
    /\ prepayments = <<>>
    /\ \E k1, k2 \in DOMAIN splits :
          /\ CreatedAt(DB, k1) < CreatedAt(DB, k2)
          /\ k2 < k1
          /\ splits[k1].participant = splits[k2].participant
          /\ PayerOf(DB, k1) = PayerOf(DB, k2)
          /\ splits[k1].participant # PayerOf(DB, k1)
          /\ splits[k1].left_trip = ZERO
          /\ splits[k1].is_settlement
          /\ splits[k1].amount_trip > ZERO
          /\ splits[k2].left_trip > ZERO
          /\ splits[k2].left_trip < splits[k2].amount_trip

\* C28: a successful settle_by_costs sets both remainders to 0 and
\* is_settlement to true for exactly the Splits its items name, changes no
\* amount of theirs, no other Split, no Prepayment and no Expense, and
\* leaves the two summary tables as recalculate_settlements builds them
\* from the rows it has left.
C28_SettleByCostsFrame ==
    /\ \A caller \in Participants, items \in ItemLists :
          LET r == settle_by_costs(DB, caller, items)
              named == {k \in DOMAIN splits :
                           \E n \in DOMAIN items :
                               /\ splits[k].expense = items[n].expense_id
                               /\ splits[k].participant = items[n].participant_id}
          IN  r.outcome = "ok" =>
                  /\ DOMAIN r.db.splits = DOMAIN splits
                  /\ \A k \in named :
                        r.db.splits[k] = [splits[k] EXCEPT !.left_cost = ZERO,
                                                           !.left_trip = ZERO,
                                                           !.is_settlement = TRUE]
                  /\ \A k \in DOMAIN splits \ named : r.db.splits[k] = splits[k]
                  /\ r.db.prepayments = prepayments
                  /\ r.db.expenses = expenses
    /\ last = [op |-> "settle_by_costs", outcome |-> "ok"] =>
          /\ settlementTrip = recalculate_settlements(DB).settlementTrip
          /\ settlementOther = recalculate_settlements(DB).settlementOther

C28_NamedSplitSettledOtherKept ==
    /\ last = [op |-> "settle_by_costs", outcome |-> "ok"]
    /\ \E k1, k2 \in DOMAIN splits :
          /\ splits[k1].participant # PayerOf(DB, k1)
          /\ splits[k1].amount_cost > ZERO
          /\ splits[k1].left_cost = ZERO
          /\ splits[k1].left_trip = ZERO
          /\ splits[k1].is_settlement
          /\ splits[k2].left_trip = splits[k2].amount_trip
          /\ splits[k2].left_trip > ZERO
          /\ ~splits[k2].is_settlement
    /\ Len(prepayments) = 0
    /\ settlementTrip # {}

\* What the Prepayments at the positions J have lost between two lists.
Spent(before, after, J) ==
    SumOver(J, [j \in J |-> before[j].amount_left - after[j].amount_left])

\* C29: reconciliation neither creates nor destroys money.  In every match
\* of a Prepayment with a Split, and in every run of
\* apply_prepayments_to_split and of apply_prepayment_to_splits, what the
\* Prepayments lose of amount_left is what the Splits lose of their
\* remainder in the matching unit: left_trip for Prepayments in trip
\* currency, left_cost for Prepayments in the expense's foreign currency.
C29_ReconciliationConserves ==
    /\ \A k \in DOMAIN splits, j \in DOMAIN prepayments :
          (/\ Eligible(prepayments[j], splits[k].participant, ExpenseById(DB, splits[k].expense))
           /\ prepayments[j].amount_left > ZERO
           /\ splits[k].left_trip > ZERO) =>
              LET rate == ExpenseById(DB, splits[k].expense).rate
                  r == IF prepayments[j].currency = TripCurrency
                       THEN SettleInTripCurrency(splits[k], prepayments[j], rate)
                       ELSE SettleInCostCurrency(splits[k], prepayments[j], rate)
                  paid == prepayments[j].amount_left - r.prepayment.amount_left
              IN  /\ paid > ZERO
                  /\ paid = IF prepayments[j].currency = TripCurrency
                            THEN splits[k].left_trip - r.split.left_trip
                            ELSE splits[k].left_cost - r.split.left_cost
    /\ \A data \in PlainExpenseData :
          \A rate \in get_exchange_rate(data.currency, TripCurrency) :
              LET created == AddExpenseCreated(DB, data, rate).db
                  k == Len(created.splits)
                  S == created.splits[k]
                  after == apply_prepayments_to_split(created, k)
                  T == {j \in DOMAIN prepayments : prepayments[j].currency = TripCurrency}
                  F == DOMAIN prepayments \ T
                  spentT == Spent(prepayments, after.prepayments, T)
                  spentF == Spent(prepayments, after.prepayments, F)
              IN  /\ \A j \in DOMAIN prepayments :
                        after.prepayments[j].amount_left <= prepayments[j].amount_left
                  /\ spentF = ZERO => S.left_trip - after.splits[k].left_trip = spentT
                  /\ spentT = ZERO => S.left_cost - after.splits[k].left_cost = spentF
    /\ Len(prepayments) < MaxPrepayments =>
          \A caller, participant_id \in Participants, amount \in 1..MaxAmount,
             currency \in Currencies, direction \in VALID_DIRECTIONS :
              AddPrepaymentRejection(DB, caller, participant_id, amount, currency,
                                     direction) = "" =>
              LET db1 == AddPrepaymentCreated(DB, caller, participant_id, amount,
                                              currency, direction)
                  j == Len(db1.prepayments)
              IN  \A order \in FifoOrders(db1, SplitCandidates(db1, j)) :
                      LET after == apply_prepayment_to_splits(db1, j, order)
                          taken == [k \in DOMAIN splits |->
                                       IF currency = TripCurrency
                                       THEN splits[k].left_trip - after.splits[k].left_trip
                                       ELSE splits[k].left_cost - after.splits[k].left_cost]
                      IN  amount - after.prepayments[j].amount_left
                              = SumOver(DOMAIN splits, taken)

C29_ForeignPrepaymentPaidAtRate ==
    /\ last.op \in {"add_prepayment", "add_expense"}
    /\ last.outcome = "ok"
    /\ Len(prepayments) = 1
    /\ prepayments[1].currency = ForeignCurrency
    /\ prepayments[1].amount_left < prepayments[1].amount
    /\ Len(splits) = 1
    /\ ExpenseById(DB, splits[1].expense).rate > RateOne
    /\ splits[1].amount_cost - splits[1].left_cost
          = prepayments[1].amount - prepayments[1].amount_left
    /\ splits[1].left_cost > ZERO

\* The remainder of a Split in the unit cross_settle_split works in for the
\* Split at position k: trip currency for an expense in trip currency, cost
\* currency for one in a foreign currency.
CrossUnit(k, split) ==
    IF CurrencyOf(DB, k) = TripCurrency THEN split.left_trip ELSE split.left_cost

\* C30: cross_settle_split applied to a new Split in which A owes B
\* processes only unsettled opposing Splits (B owes A) of expenses in the
\* same currency, oldest expense first; it takes the same amount off both
\* Splits' remainders in the matching unit, for each opposing Split the
\* minimum of the two remainders; it stops once the new Split's left_trip
\* is 0, and it touches no Prepayment.
C30_CrossSettleSplit ==
    last = [op |-> "add_expense", outcome |-> "ok"] =>
    \A k \in NewestDebtors :
        splits[k].left_trip > ZERO =>
        LET opposing == {o \in DOMAIN splits :
                            /\ splits[o].participant = PayerOf(DB, k)
                            /\ PayerOf(DB, o) = splits[k].participant
                            /\ ~splits[o].is_settlement
                            /\ CurrencyOf(DB, o) = CurrencyOf(DB, k)}
        IN  \A order \in FifoOrders(DB, OpposingSplits(DB, k)) :
                LET r == cross_settle_split(DB, k, order)
                    taken == [o \in opposing |->
                                 CrossUnit(k, splits[o]) - CrossUnit(k, r.db.splits[o])]
                IN  /\ r.outcome = "ok"
                    /\ r.db.prepayments = prepayments
                    /\ \A x \in DOMAIN splits \ ({k} \cup opposing) :
                          r.db.splits[x] = splits[x]
                    /\ \A o1, o2 \in opposing :
                          (/\ CreatedAt(DB, o1) < CreatedAt(DB, o2)
                           /\ r.db.splits[o2] # splits[o2])
                              => CrossUnit(k, r.db.splits[o1]) <= ZERO
                    /\ CrossUnit(k, splits[k]) - CrossUnit(k, r.db.splits[k])
                          = SumOver(opposing, taken)
                    /\ order # <<>> =>
                          taken[order[1]] = Min(CrossUnit(k, splits[k]),
                                                CrossUnit(k, splits[order[1]]))
                    /\ \A o \in OpposingSplits(DB, k) :
                          r.db.splits[o] = splits[o] => r.db.splits[k].left_trip <= ZERO

\* What a owes b on the unsettled Splits of the expenses in currency c, in
\* the unit of the per-currency graph.
OwedIn(db, a, b, c) ==
    LET S == {k \in DOMAIN db.splits :
                 /\ ~db.splits[k].is_settlement
                 /\ db.splits[k].participant = a
                 /\ PayerOf(db, k) = b
                 /\ CurrencyOf(db, k) = c}
    IN  SumOver(S, [k \in S |-> IF c = TripCurrency THEN db.splits[k].left_trip
                                ELSE db.splits[k].left_cost])

\* The unspent Prepayments of currency c from a to b, in their own currency.
PrepaidIn(db, a, b, c) ==
    LET P == {j \in DOMAIN db.prepayments :
                 /\ db.prepayments[j].amount_left > ZERO
                 /\ db.prepayments[j].from_participant = a
                 /\ db.prepayments[j].to_participant = b
                 /\ db.prepayments[j].currency = c}
    IN  SumOver(P, [j \in P |-> db.prepayments[j].amount_left])

\* The per-currency summary edge from a to b in currency c of db.
StoredOtherOf(db, a, b, c) ==
    LET R == {row \in db.settlementOther :
                 /\ row.from_participant = a /\ row.to_participant = b
                 /\ row.currency = c}
    IN  SumOver(R, [row \in R |-> row.amount])

\* The trip-currency summary edge from a to b of db.
StoredTripOf(db, a, b) ==
    LET R == {row \in db.settlementTrip :
                 row.from_participant = a /\ row.to_participant = b}
    IN  SumOver(R, [row \in R |-> row.amount])

\* C31: the balance graphs: after recalculate_settlements, for every pair
\* and every currency c the net per-currency balance is the sum of the
\* remainders of the unsettled Splits of the expenses in c (left_trip for the
\* trip currency, left_cost otherwise) one way minus the other way, every
\* unspent Prepayment of currency c counting as a debt of its payee to its
\* payer of amount_left; in the trip-currency graph the Splits count with
\* left_trip and the same Prepayment with amount_left * rate.
C31_BalanceGraph ==
    LET after == recalculate_settlements(DB)
    IN  \A a, b \in Participants :
            a # b =>
                /\ \A c \in Currencies :
                      StoredOtherOf(after, a, b, c) - StoredOtherOf(after, b, a, c)
                          = (OwedIn(DB, a, b, c) + PrepaidIn(DB, b, a, c))
                            - (OwedIn(DB, b, a, c) + PrepaidIn(DB, a, b, c))
                /\ StoredTripOf(after, a, b) - StoredTripOf(after, b, a)
                          = (OwedTrip(a, b) + PrepaidTrip(b, a))
                            - (OwedTrip(b, a) + PrepaidTrip(a, b))

\* A Prepayment kept at rate 2 beside an unpaid Split of the same pair, with
\* both graphs filled.
C31_PrepaymentBesideSplit ==
    /\ last.outcome = "ok"
    /\ settlementTrip # {}
    /\ settlementOther # {}
    /\ \E j \in DOMAIN prepayments :
          /\ prepayments[j].amount_left > ZERO
          /\ prepayments[j].rate > RateOne
          /\ \E k \in DOMAIN splits :
                /\ ~splits[k].is_settlement
                /\ splits[k].left_trip > ZERO
                /\ {splits[k].participant, PayerOf(DB, k)}
                      = {prepayments[j].from_participant, prepayments[j].to_participant}

\* The row after is the row before with no remainder raised and no
\* amount changed.
SameSplitPaidDown(before, after) ==
    /\ after.participant = before.participant
    /\ after.expense = before.expense
    /\ after.amount_cost = before.amount_cost
    /\ after.amount_trip = before.amount_trip
    /\ after.left_cost <= before.left_cost
    /\ after.left_trip <= before.left_trip

\* Every Split row of the state is found in spl at its place, paid down.
PaidDown(spl) ==
    \A k \in DOMAIN splits : SameSplitPaidDown(splits[k], spl[k])

\* C32: from its creation until update_expense or delete_expense deletes
\* it, no reconciliation and no manual settlement raises either remainder of
\* a Split or changes either of its amounts: in every reachable state, what
\* settle_by_costs, settle_by_amount or the reconciliation of a new
\* Prepayment writes leaves every Split with remainders no higher than
\* before and with its amounts.
C32_RemaindersNeverIncrease ==
    /\ \A caller \in Participants, items \in ItemLists :
          PaidDown(SettleItems(DB, caller, items).db.splits)
    /\ \A from_user_id, to_user_id \in Participants, amount \in 1..(MaxAmount + 1),
          currency \in Currencies, is_main_currency \in BOOLEAN :
          from_user_id # to_user_id =>
              \A order \in FifoOrders(DB, SettleCandidates(DB, from_user_id, to_user_id,
                                                           currency, is_main_currency)) :
                  PaidDown(SettleLoop(DB, splits, order, amount, is_main_currency).splits)
    /\ \A caller, participant_id \in Participants, amount \in 1..MaxAmount,
          currency \in Currencies, direction \in VALID_DIRECTIONS :
          caller # participant_id =>
              LET db1 == AddPrepaymentCreated(DB, caller, participant_id, amount,
                                              currency, direction)
              IN  \A order \in FifoOrders(db1, SplitCandidates(db1, Len(db1.prepayments))) :
                      PaidDown(apply_prepayment_to_splits(db1, Len(db1.prepayments),
                                                          order).splits)

\* C33: the Split Builder's amounts: for a share's list of money entries
\* and the expense's rate r, amount_in_trip_currency is the sum of the
\* trip-currency entries plus the sum, over the other entries, of amount * r
\* rounded to two places, and amount_in_cost_currency is the sum of the
\* other entries plus the sum, over the trip-currency entries, of
\* amount / r rounded to two places; at r = 1 the two amounts are equal.
C33_SplitBuilderAmounts ==
    builder.pc = "returned" =>
        LET entries == builder.split_value
            main == {i \in DOMAIN entries : entries[i].currency = TripCurrency}
            other == DOMAIN entries \ main
        IN  /\ builder.split_amount_trip
                  = SumOver(main, [i \in main |-> entries[i].amount])
                    + SumOver(other, [i \in other |->
                                  Quantize(entries[i].amount * builder.rate, RateOne)])
            /\ builder.split_amount_cost
                  = SumOver(other, [i \in other |-> entries[i].amount])
                    + SumOver(main, [i \in main |->
                                  Quantize(entries[i].amount * RateOne, builder.rate)])
            /\ builder.rate = RateOne =>
                  builder.split_amount_trip = builder.split_amount_cost

\* A share of entries in both currencies at rate 2, two of which are trip
\* currency entries of one cent, each a tie of the rounding.
C33_MixedShareWithTies ==
    /\ builder.pc = "returned"
    /\ builder.rate = 2
    /\ \E i, j, l \in DOMAIN builder.split_value :
          /\ i # j
          /\ builder.split_value[i] = [currency |-> TripCurrency, amount |-> 1]
          /\ builder.split_value[j] = [currency |-> TripCurrency, amount |-> 1]
          /\ builder.split_value[l].currency = ForeignCurrency
          /\ builder.split_value[l].amount > ZERO

\* C34: summary freshness: when an engine operation has returned, with a
\* success or with a failure result, the stored rows of both summary tables
\* are the rows recalculate_settlements produces from the Splits and
\* Prepayments of that state.
C34_SummaryFresh ==
    last.outcome \in {"ok", "fail"} =>
        LET fresh == recalculate_settlements(DB)
        IN  /\ settlementTrip = fresh.settlementTrip
            /\ settlementOther = fresh.settlementOther

\* C35: the ledger is always reconciled: when an engine operation has
\* completed there is no pair (A, B) with both an unspent trip-currency
\* Prepayment from A to B and an unsettled Split on which A still owes B a
\* positive trip-currency remainder, the Prepayments that update_expense
\* and delete_expense create included.
C35_AlwaysReconciled ==
    last.outcome = "ok" =>
        ~\E j \in DOMAIN prepayments, k \in DOMAIN splits :
            /\ prepayments[j].currency = TripCurrency
            /\ prepayments[j].amount_left > ZERO
            /\ ~splits[k].is_settlement
            /\ splits[k].left_trip > ZERO
            /\ splits[k].participant = prepayments[j].from_participant
            /\ PayerOf(DB, k) = prepayments[j].to_participant

\* What participant p has paid in on the Splits of expense id in db plus
\* what the Prepayments J of db from p amount to, in cost currency.
AccountedFor(db, id, p, J) ==
    LET S == {k \in SplitsOf(db, id) : db.splits[k].participant = p}
        P == {j \in J : db.prepayments[j].from_participant = p}
    IN  SumOver(S, [k \in S |-> SettledCost(db.splits[k])])
        + SumOver(P, [j \in P |-> db.prepayments[j].amount])

\* C36: update_expense never loses paid-in money: for every participant
\* other than the payer who had settled a positive amount S on the old
\* Split, the settled part of the participant's new Split plus the
\* Prepayments the call creates from that participant make up at least S,
\* also when the new share list leaves the participant out or the
\* participant becomes the payer.
C36_UpdateKeepsPaidIn ==
    \A id \in ExpenseIds(DB), data \in PlainExpenseData :
        \A rate \in get_exchange_rate(data.currency, TripCurrency) :
            LET old == ExpenseById(DB, id)
                r == update_expense(DB, old.payer, WithId(data, id), rate)
            IN  \A k \in SplitsOf(DB, id) :
                    (/\ splits[k].participant # old.payer
                     /\ SettledCost(splits[k]) > ZERO) =>
                        /\ r.outcome = "ok"
                        /\ AccountedFor(r.db, id, splits[k].participant,
                                        CreatedPrepayments(DB, r.db))
                              >= SettledCost(splits[k])

\* What participant p has actually paid toward expense id in db: the
\* settled part of p's Splits owed to somebody else, in cost currency.
ActuallySettled(db, id, p) ==
    LET S == {k \in SplitsOf(db, id) :
                 db.splits[k].participant = p /\ PayerOf(db, k) # p}
    IN  SumOver(S, [k \in S |-> SettledCost(db.splits[k])])

\* C37: update_expense creates no settled credit from nothing: for every
\* participant other than the new payer, the settled part of the new Split
\* plus the Prepayments the call creates from the participant is at most
\* what the participant had settled on the old Split owed to the old payer;
\* the old payer's own Split, settled from the start, is not money paid
\* toward a new Split owed to a new payer.  (Seen where no unspent
\* Prepayment is there for the reconciliation of the new Split to spend.)
C37_NoCreditFromNothing ==
    (\A j \in DOMAIN prepayments : prepayments[j].amount_left = ZERO) =>
        \A id \in ExpenseIds(DB), data \in PlainExpenseData :
            \A rate \in get_exchange_rate(data.currency, TripCurrency) :
                LET old == ExpenseById(DB, id)
                    r == update_expense(DB, old.payer, WithId(data, id), rate)
                IN  r.outcome = "ok" =>
                        \A p \in Participants \ {data.payer_id} :
                            AccountedFor(r.db, id, p, CreatedPrepayments(DB, r.db))
                                <= ActuallySettled(DB, id, p)

\* C38: in every reachable state an Expense has at most one Split per
\* participant, whatever share list add_expense or update_expense was given
\* (a list naming a participant twice included), so that settle_by_costs
\* finds the one Split of (expense_id, participant_id).
C38_OneSplitPerParticipant ==
    \A id \in ExpenseIds(DB), p \in Participants :
        Cardinality({k \in SplitsOf(DB, id) : splits[k].participant = p}) <= 1

\* C39: two recalculate_settlements runs of the same trip that interleave
\* still leave, when both requests have returned, at most one row per
\* unordered pair of participants in the trip-currency table and at most
\* one per pair and currency in the per-currency table: no edge is there
\* twice.
C39_OneRowPerPair ==
    AllReturned =>
        \A a, b \in Participants :
            /\ Cardinality({row \in settlementTrip :
                    {row.from_participant, row.to_participant} = {a, b}}) <= 1
            /\ \A c \in Currencies :
                  Cardinality({row \in settlementOther :
                      /\ {row.from_participant, row.to_participant} = {a, b}
                      /\ row.currency = c}) <= 1

\* C40: an access code binds at most one user: a join_trip that returned
\* success has bound its user to the participant it found and cleared the
\* code, and the binding stays: of two join_trip requests of different
\* users with the same code that run side by side, the second to save does
\* not succeed over the first and does not overwrite its user.
C40_CodeBindsOneUser ==
    \A c \in DOMAIN calls :
        (calls[c].op = "join_trip" /\ calls[c].outcome = "ok") =>
            /\ \E p \in participants :
                  /\ p.participant_id = calls[c].participant.participant_id
                  /\ p.user = calls[c].user
                  /\ p.access_code = NoCode
                  /\ ~p.is_placeholder
            /\ \A d \in DOMAIN calls \ {c} :
                  ~(/\ calls[d].op = "join_trip"
                    /\ calls[d].user # calls[c].user
                    /\ calls[d].outcome = "ok"
                    /\ calls[d].participant.participant_id
                          = calls[c].participant.participant_id)

====
